---- MODULE Spec2Model ----
(***************************************************************************)
(* MiniC compiler: AST -> linear IR lowering (IRGenerator.cpp), the IR's   *)
(* execution as the ARM32 selector translates it, and the selector's call  *)
(* marshalling (InstSelectorArm32.cpp).                                    *)
(*                                                                         *)
(* Objects the C++ code allocates with `new` (instructions, variables,     *)
(* constants, formal parameters) live in module.heap; a pointer is the     *)
(* index of the object in the heap and 0 is nullptr.  Every instruction    *)
(* also records `node`, the path (son indices from the compile unit) of    *)
(* the AST node whose handler created it, i.e. the node whose blockInsts   *)
(* received it first.                                                      *)
(***************************************************************************)
EXTENDS Integers, Sequences, FiniteSets, TLC

VARIABLES
    root,       \* the AST handed to IRGenerator (ast_node tree)
    phase,      \* "parsed" | "lowered" | "exec" | "exited" | "fault"
                \* | "isel" | "iselrun" | "iseldone"
    result,     \* what IRGenerator::run() returned: "none" | "true" | "false" | "crash"
    module,     \* the Module under construction / after lowering
    fn,         \* index of the function being executed (0: none)
    pc,         \* position in fn's InterCode of the next instruction
    env,        \* heap id -> current integer content of that value
    trace,      \* heap ids of the instructions executed so far, in order
    steps,      \* number of instructions executed
    fault,      \* "none" | "div0" | "nolabel"
    mem,        \* byte address -> content of the word stored there
    call,       \* instruction selector: the FuncCallInstruction being translated
    asm,        \* instruction selector: the ILoc code emitted, in order
    allocated,  \* instruction selector: register ids held in the allocator
    regValues,  \* instruction selector: <<value, register>> bound by Allocate(value)
    apc,        \* machine: position in asm of the next operation (0: not run)
    regs,       \* machine: register id -> content
    stack,      \* machine: sp-relative byte offset -> content of the word
    frame,      \* machine: fp-relative byte offset -> content of the word
    ret         \* machine: what the callee returned in R0 (Unwritten: no call yet)

lowerVars == <<root, phase, result, module>>
execVars == <<fn, pc, env, trace, steps, fault, mem>>
iselVars == <<call, asm, allocated, regValues, apc, regs, stack, frame, ret>>
vars == <<root, phase, result, module, fn, pc, env, trace, steps, fault, mem,
          call, asm, allocated, regValues, apc, regs, stack, frame, ret>>

(***************************************************************************)
(* Bounds of the model.                                                    *)
(***************************************************************************)
MaxVal == 2          \* run-time inputs (parameters, indices) range over 0..MaxVal
MaxDim == 2          \* declared array extents range over 1..MaxDim
MaxSteps == 40       \* instructions executed per run of a function
MaxCallArgs == 8     \* arguments of a translated call range over 0..MaxCallArgs

Vals == 0..MaxVal

Max(S) == CHOOSE x \in S : \A y \in S : y <= x

Last(s) == s[Len(s)]

Range(s) == {s[i] : i \in 1..Len(s)}

IsPrefix(p, s) == Len(p) <= Len(s) /\ SubSeq(s, 1, Len(p)) = p

(***************************************************************************)
(* AST (ast_node): node_type, name, integer_val, type, needScope, sons.    *)
(***************************************************************************)
Node(t, name, v, ty, sons) ==
    [node_type |-> t, name |-> name, integer_val |-> v, type |-> ty,
     needScope |-> TRUE, sons |-> sons]

Uint(v) == Node("LEAF_LITERAL_UINT", "", v, "int", <<>>)
Var(name) == Node("LEAF_VAR_ID", name, 0, "", <<>>)
TypeN(ty) == Node("LEAF_TYPE", "", 0, ty, <<>>)
Op1(t, a) == Node(t, "", 0, "", <<a>>)
Op2(t, a, b) == Node(t, "", 0, "", <<a, b>>)
Block(stmts) == Node("BLOCK", "", 0, "", stmts)
Return(e) == Node("RETURN", "", 0, "", <<e>>)
ReturnVoid == Node("RETURN", "", 0, "", <<>>)
Assign(l, r) == Op2("ASSIGN", l, r)
If(c, t) == Op2("IF", c, t)
IfElse(c, t, e) == Node("IF", "", 0, "", <<c, t, e>>)
While(c, b) == Op2("WHILE", c, b)
Break == Node("BREAK", "", 0, "", <<>>)
Continue == Node("CONTINUE", "", 0, "", <<>>)
Call(name, args) ==
    Op2("FUNC_CALL", Var(name), Node("FUNC_REAL_PARAMS", "", 0, "", args))
ArrayAccess(name, idx) == Node("ARRAY_ACCESS", "", 0, "", <<Var(name)>> \o idx)
ArrayDecl(name, dims) ==
    Node("ARRAY_DECL", "", 0, "",
         <<Var(name)>> \o [i \in 1..Len(dims) |-> Uint(dims[i])])
Decl(d) == Node("DECL_STMT", "", 0, "", <<Op2("VAR_DECL", TypeN("int"), d)>>)
Param(name) == Op2("FUNC_FORMAL_PARAM", TypeN("int"), Var(name))
ArrayParam(name, dims) ==
    Op2("FUNC_FORMAL_PARAM", TypeN("int"),
        Node("ARRAY_ACCESS", "", 0, "",
             <<Var(name)>> \o [i \in 1..Len(dims) |-> Uint(dims[i])]))
\* a null pointer among the sons handed to create_array_access
NullNode == Node("NULL", "", 0, "", <<>>)

IsNode(n) == n # NullNode

\* create_array_access: the array name, then the index nodes that are there
create_array_access(array_name, indices) ==
    Node("ARRAY_ACCESS", "", 0, "", <<array_name>> \o SelectSeq(indices, IsNode))

HasSize(bracket) == bracket # <<>>

\* visitFuncParam: brackets is the sequence of bracket pairs of the
\* parameter, each <<>> (no size written) or <<size>>; the sizes that are
\* written are handed out to the bracket pairs from the first one on
visitFuncParam(name, brackets) ==
    IF brackets = <<>> THEN Param(name)
    ELSE
    LET intConstList == SelectSeq(brackets, HasSize)
        dimension_exprs ==
            [i \in 1..Len(brackets) |->
                IF i <= Len(intConstList) THEN Uint(intConstList[i][1])
                ELSE NullNode]
    IN  Op2("FUNC_FORMAL_PARAM", TypeN("int"),
            create_array_access(Var(name), dimension_exprs))

FuncDef(ty, name, params, body) ==
    Node("FUNC_DEF", "", 0, "",
         <<TypeN(ty), Var(name), Node("FUNC_FORMAL_PARAMS", "", 0, "", params),
           Block(body)>>)
CompileUnit(items) == Node("COMPILE_UNIT", "", 0, "", items)

isLeafNode(node) ==
    node.node_type \in {"LEAF_LITERAL_UINT", "LEAF_VAR_ID", "LEAF_TYPE"}

(***************************************************************************)
(* Heap objects: Values and Instructions (an Instruction is a Value).      *)
(*   vk   "inst" | "local" | "global" | "param" | "const"                  *)
(*   op   IR operator of an instruction ("" otherwise)                     *)
(*   ops  operands (heap ids; 0 is a null operand)                         *)
(*   lbls label operands of goto / cond_goto (heap ids)                    *)
(***************************************************************************)
Obj(vk, op, ops, lbls, name, n, ty, node) ==
    [vk |-> vk, op |-> op, ops |-> ops, lbls |-> lbls, name |-> name, n |-> n,
     ty |-> ty, isArray |-> FALSE, dims |-> <<>>, initValue |-> 0,
     isInitialized |-> FALSE, inBSSSection |-> TRUE, node |-> node]

EmptyScope == [x \in {} |-> 0]

EmptyModule ==
    [heap |-> <<>>, funcs |-> <<>>, cur |-> 0, scopes |-> <<EmptyScope>>,
     staticInitVal |-> 0, ub |-> FALSE, uses |-> <<>>]

\* `new X(...)`: the object is appended; its pointer is Len of the new heap.
New(m, o) == [m EXCEPT !.heap = Append(@, o)]

Top(m) == Len(m.heap)

\* User::addOperand(val) for each of the operands of user in turn: a Use edge
\* (val, user) is created and appended to the use list of val (Value::addUse)
addOperand(uses, user, ops) ==
    uses \o [i \in 1..Len(ops) |-> <<ops[i], user>>]

\* Instruction constructors call addOperand for every operand; a null operand
\* is dereferenced there (undefined behaviour), except Exit's absent value.
NewInst(m, op, ops, lbls, name, ty, node) ==
    [New(m, Obj("inst", op, ops, lbls, name, 0, ty, node))
        EXCEPT !.ub = @ \/ (\E i \in 1..Len(ops) : ops[i] = 0),
               !.uses = addOperand(@, Len(m.heap) + 1, ops)]

\* CondGotoInstruction(_func, _condVar, _trueTarget, _falseTarget): the
\* condition is kept in the member condVar (here ops[1]) and is not added as
\* an operand; toString and the selector dereference it.
CondGotoInstruction(m, _condVar, _trueTarget, _falseTarget, node) ==
    [New(m, Obj("inst", "cond_goto", <<_condVar>>, <<_trueTarget, _falseTarget>>,
                "", 0, "void", node))
        EXCEPT !.ub = @ \/ _condVar = 0]

(***************************************************************************)
(* Module and Function operations.                                         *)
(***************************************************************************)
NewFunctionRec(name, ty) ==
    [name |-> name, returnType |-> ty, params |-> <<>>, code |-> <<>>,
     exitLabel |-> 0, returnValue |-> 0, breakLabels |-> <<>>,
     continueLabels |-> <<>>, maxFuncCallArgCnt |-> 0, existFuncCall |-> FALSE]

\* index of the function called `name`, 0 when there is none
findFunction(m, name) ==
    LET hits == {i \in 1..Len(m.funcs) : m.funcs[i].name = name}
    IN  IF hits = {} THEN 0 ELSE CHOOSE i \in hits : TRUE

\* fails (nullptr, here the module unchanged) when the name is already taken
newFunction(m, name, ty) ==
    IF findFunction(m, name) # 0 THEN m
    ELSE [m EXCEPT !.funcs = Append(@, NewFunctionRec(name, ty))]

setCurrentFunction(m, f) == [m EXCEPT !.cur = f]

enterScope(m) == [m EXCEPT !.scopes = Append(@, EmptyScope)]

leaveScope(m) == [m EXCEPT !.scopes = SubSeq(@, 1, Len(@) - 1)]

\* inner scopes shadow outer ones; 0 when the name resolves nowhere
findVarValue(m, name) ==
    LET hits == {i \in 1..Len(m.scopes) : name \in DOMAIN m.scopes[i]}
    IN  IF hits = {} THEN 0 ELSE m.scopes[Max(hits)][name]

\* A GlobalVariable when no function is active, else a LocalVariable of the
\* top scope; an anonymous value ("") enters no scope.  The new pointer is
\* Top of the returned module; a name already in the top scope yields nullptr
\* (the module is returned unchanged).
newVarValueFails(m, name) == name # "" /\ name \in DOMAIN m.scopes[Len(m.scopes)]

newVarValue(m, ty, name) ==
    IF newVarValueFails(m, name) THEN m
    ELSE LET m1 == New(m, Obj(IF m.cur = 0 THEN "global" ELSE "local",
                              "", <<>>, <<>>, name, 0, ty, <<>>))
         IN  IF name = "" THEN m1
             ELSE [m1 EXCEPT !.scopes[Len(m.scopes)] = (name :> Top(m1)) @@ @]

\* constants are interned per module
findConstInt(m, n) ==
    LET hits == {i \in 1..Len(m.heap) : m.heap[i].vk = "const" /\ m.heap[i].n = n}
    IN  IF hits = {} THEN 0 ELSE CHOOSE i \in hits : TRUE

newConstInt(m, n) ==
    IF findConstInt(m, n) # 0 THEN m
    ELSE New(m, Obj("const", "", <<>>, <<>>, "", n, "int", <<>>))

ConstInt(m, n) == findConstInt(newConstInt(m, n), n)

pushBreakLabel(m, l) == [m EXCEPT !.funcs[m.cur].breakLabels = Append(@, l)]
pushContinueLabel(m, l) == [m EXCEPT !.funcs[m.cur].continueLabels = Append(@, l)]
popBreakLabel(m) ==
    [m EXCEPT !.funcs[m.cur].breakLabels = SubSeq(@, 1, Len(@) - 1)]
popContinueLabel(m) ==
    [m EXCEPT !.funcs[m.cur].continueLabels = SubSeq(@, 1, Len(@) - 1)]
getBreakLabel(m) ==
    LET s == m.funcs[m.cur].breakLabels IN IF s = <<>> THEN 0 ELSE Last(s)
getContinueLabel(m) ==
    LET s == m.funcs[m.cur].continueLabels IN IF s = <<>> THEN 0 ELSE Last(s)

(***************************************************************************)
(* GlobalVariable.  The text of a declaration is a sequence of tokens: a   *)
(* word, or a number (the IR name of a constant).                          *)
(***************************************************************************)
Tok(w) == [w |-> w, n |-> 0]

Number(n) == [w |-> "#", n |-> n]

\* Value::getIRName of a constant or a variable
getIRName(m, v) ==
    IF m.heap[v].vk = "const" THEN Number(m.heap[v].n) ELSE Tok(m.heap[v].name)

\* a global that is given a null initial value stays in the BSS section
setInitValue(m, g, val) ==
    [m EXCEPT !.heap[g].initValue = val,
              !.heap[g].inBSSSection = IF val # 0 THEN FALSE ELSE @]

setIsInitialized(m, g, initialized) ==
    [m EXCEPT !.heap[g].isInitialized = initialized]

isInBSSSection(m, g) == m.heap[g].inBSSSection

toDeclareString(m, g) ==
    <<Tok("declare"), Tok(m.heap[g].ty), Tok(m.heap[g].name)>>
    \o (IF m.heap[g].isArray
        THEN [i \in 1..Len(m.heap[g].dims) |-> Number(m.heap[g].dims[i])]
        ELSE <<>>)

toInitString(m, g) ==
    IF m.heap[g].isInitialized
    THEN <<Tok(" = "), getIRName(m, m.heap[g].initValue)>>
    ELSE <<>>

\* InterCode::addInst on the current function's instruction list
addCode(m, insts) == [m EXCEPT !.funcs[m.cur].code = @ \o insts]

(***************************************************************************)
(* AST -> IR handlers.  A handler gets the node, the module and the node's *)
(* path, and returns                                                       *)
(*   ok    the handler's bool result                                       *)
(*   m     the module as the handler left it (also when it failed)         *)
(*   insts the node's blockInsts                                           *)
(*   val   the node's val (0: nullptr)                                     *)
(***************************************************************************)
\* `Bind([x \in {e} |-> body])` is body with x standing for the value of e,
\* which is computed once
The(S) == CHOOSE x \in S : TRUE

Bind(f) == The({g[The(DOMAIN g)] : g \in {f}})

R(ok, m, insts, val) == [ok |-> ok, m |-> m, insts |-> insts, val |-> val]

RECURSIVE ir_visit_ast_node(_, _, _, _)
RECURSIVE ir_visit_ast_node_with_2_labels(_, _, _, _, _)

ir_default(node, m, path) == R(TRUE, m, <<>>, 0)

ir_leaf_node_type(node, m, path) == R(TRUE, m, <<>>, 0)

ir_leaf_node_var_id(node, m, path) == R(TRUE, m, <<>>, findVarValue(m, node.name))

ir_leaf_node_uint(node, m, path) ==
    LET m1 == newConstInt(m, node.integer_val)
    IN
        R(TRUE, m1, <<>>, findConstInt(m1, node.integer_val))

\* ir_add, ir_sub, ir_mul, ir_div, ir_mod share one body up to the operator
BinaryArith(node, m, path, op) ==
    Bind([left \in {
                ir_visit_ast_node(node.sons[1], m, path \o <<1>>, node.node_type)
    } |->
        IF ~left.ok THEN R(FALSE, left.m, <<>>, 0)
        ELSE
        Bind([right \in {
                     ir_visit_ast_node(node.sons[2], left.m, path \o <<2>>,
                                       node.node_type)
        } |->
            IF ~right.ok THEN R(FALSE, right.m, <<>>, 0)
            ELSE
            LET m1 == NewInst(right.m, op, <<left.val, right.val>>, <<>>, "",
                              "int", path)
            IN
                R(TRUE, m1, left.insts \o right.insts \o <<Top(m1)>>, Top(m1))])])

ir_add(node, m, path) == BinaryArith(node, m, path, "add")
ir_sub(node, m, path) == BinaryArith(node, m, path, "sub")
ir_mul(node, m, path) == BinaryArith(node, m, path, "mul")
ir_div(node, m, path) == BinaryArith(node, m, path, "div")
ir_mod(node, m, path) == BinaryArith(node, m, path, "mod")

ir_neg(node, m, path) ==
    Bind([right \in {
                 ir_visit_ast_node(node.sons[1], m, path \o <<1>>, node.node_type)
    } |->
        IF ~right.ok THEN R(FALSE, right.m, <<>>, 0)
        ELSE
        LET m1 == NewInst(right.m, "neg", <<right.val>>, <<>>, "", "int", path)
        IN
            R(TRUE, m1, right.insts \o <<Top(m1)>>, Top(m1))])

ir_neg_labels(node, m, path, trueLabel, falseLabel) ==
    Bind([right \in {
                 ir_visit_ast_node_with_2_labels(node.sons[1], m, path \o <<1>>,
                                                 trueLabel, falseLabel)
    } |->
        IF ~right.ok THEN R(FALSE, right.m, <<>>, 0)
        ELSE R(TRUE, right.m, right.insts, 0)])

\* ir_assign that appends the instructions in the order of the visits
ir_assign_left_first(node, m, path) ==
    Bind([left \in {
                ir_visit_ast_node(node.sons[1], m, path \o <<1>>, node.node_type)
    } |->
        IF ~left.ok THEN R(FALSE, left.m, <<>>, 0)
        ELSE
        Bind([right \in {
                     ir_visit_ast_node(node.sons[2], left.m, path \o <<2>>,
                                       node.node_type)
        } |->
            IF ~right.ok THEN R(FALSE, right.m, <<>>, 0)
            ELSE
            LET m1 == NewInst(right.m, "move", <<left.val, right.val>>, <<>>, "",
                              "void", path)
            IN
                R(TRUE, m1, left.insts \o right.insts \o <<Top(m1)>>, Top(m1))])])

ir_assign(node, m, path) ==
    Bind([left \in {
                ir_visit_ast_node(node.sons[1], m, path \o <<1>>, node.node_type)
    } |->
        IF ~left.ok THEN R(FALSE, left.m, <<>>, 0)
        ELSE
        Bind([right \in {
                     ir_visit_ast_node(node.sons[2], left.m, path \o <<2>>,
                                       node.node_type)
        } |->
            IF ~right.ok THEN R(FALSE, right.m, <<>>, 0)
            ELSE
            LET m1 == NewInst(right.m, "move", <<left.val, right.val>>, <<>>, "",
                              "void", path)
            IN
                R(TRUE, m1, right.insts \o left.insts \o <<Top(m1)>>, Top(m1))])])

\* a `return` that stores the value but does not leave
ir_return_no_goto(node, m, path) ==
    Bind([right \in {
                 IF node.sons # <<>>
                 THEN ir_visit_ast_node(node.sons[1], m, path \o <<1>>,
                                        node.node_type)
                 ELSE R(TRUE, m, <<>>, 0)
    } |->
    LET returnValue == right.m.funcs[right.m.cur].returnValue
    IN
        IF returnValue # 0 /\ node.sons # <<>>
        THEN
             LET m1 == NewInst(right.m, "move", <<returnValue, right.val>>, <<>>,
                               "", "void", path)
             IN
                 R(right.ok, m1, right.insts \o <<Top(m1)>>, right.val)
        ELSE R(right.ok, right.m, right.insts, 0)])

ir_return(node, m, path) ==
    LET hasExpr == node.sons # <<>>
    IN
    Bind([right \in {
                 IF hasExpr
                 THEN ir_visit_ast_node(node.sons[1], m, path \o <<1>>,
                                        node.node_type)
                 ELSE R(TRUE, m, <<>>, 0)
    } |->
        IF ~right.ok THEN R(FALSE, right.m, <<>>, 0)
        ELSE
        LET f == right.m.funcs[right.m.cur]
            returnValue == f.returnValue
            \* non-void function with a return expression
            m1 == IF returnValue # 0 /\ hasExpr
                  THEN NewInst(right.m, "move", <<returnValue, right.val>>, <<>>,
                               "", "void", path)
                  ELSE right.m
        IN
        Bind([i1 \in {
                  IF returnValue # 0 /\ hasExpr
                  THEN right.insts \o <<Top(m1)>>
                  ELSE IF returnValue = 0 /\ hasExpr THEN right.insts ELSE <<>>
        } |->
        LET m2 == NewInst(m1, "goto", <<>>, <<f.exitLabel>>, "", "void", path)
        IN
            R(TRUE, m2, i1 \o <<Top(m2)>>,
              IF returnValue # 0 /\ hasExpr THEN right.val ELSE 0)])])

\* the statement loop of ir_block (and of ir_compile_unit): stop at the first
\* son whose translation fails
RECURSIVE VisitSons(_, _, _, _, _)
VisitSons(node, i, m, path, acc) ==
    IF i > Len(node.sons) THEN R(TRUE, m, acc, 0)
    ELSE
         Bind([temp \in {
                     ir_visit_ast_node(node.sons[i], m, path \o <<i>>,
                                       node.node_type)
         } |->
             IF ~temp.ok THEN R(FALSE, temp.m, acc, 0)
             ELSE VisitSons(node, i + 1, temp.m, path, acc \o temp.insts)])

ir_block(node, m, path) ==
    LET m1 == IF node.needScope THEN enterScope(m) ELSE m
    IN
    Bind([body \in {VisitSons(node, 1, m1, path, <<>>)} |->
        IF ~body.ok THEN body
        ELSE R(TRUE, IF node.needScope THEN leaveScope(body.m) ELSE body.m,
               body.insts, 0)])

ir_compile_unit(node, m, path) ==
    Bind([r \in {VisitSons(node, 1, setCurrentFunction(m, 0), path, <<>>)} |->
        R(r.ok, r.m, <<>>, 0)])

(***************************************************************************)
(* Function definition, formal parameters, calls.                          *)
(***************************************************************************)
IsLiteralNode(n) == n.node_type = "LEAF_LITERAL_UINT"

ParamDims(paramNode) ==
    <<0>> \o [i \in 1..(Len(paramNode.sons) - 1) |-> paramNode.sons[i + 1].integer_val]

ir_function_formal_param(node, m, path) ==
    LET typeNode == node.sons[1]
        paramNode == node.sons[2]
    IN
        IF typeNode.type = "" THEN R(FALSE, m, <<>>, 0)
        ELSE IF paramNode.node_type = "ARRAY_ACCESS"
        THEN
            IF \E i \in 2..Len(paramNode.sons) : ~IsLiteralNode(paramNode.sons[i])
            THEN R(FALSE, m, <<>>, 0)
            ELSE
            LET arrayName == paramNode.sons[1].name
                dimensions == ParamDims(paramNode)
                m1 == New(m, [Obj("param", "", <<>>, <<>>, arrayName, 0,
                                  typeNode.type, path)
                              EXCEPT !.isArray = TRUE, !.dims = dimensions])
                formalParam == Top(m1)
            IN
            Bind([m2 \in {
                      [m1 EXCEPT !.funcs[m.cur].params = Append(@, formalParam)]
            } |->
                IF newVarValueFails(m2, arrayName) THEN R(FALSE, m2, <<>>, 0)
                ELSE
                LET m3 == newVarValue(m2, typeNode.type, arrayName)
                    paramVar == Top(m3)
                    m4 == [m3 EXCEPT !.heap[paramVar].dims = dimensions,
                                     !.heap[paramVar].isArray = TRUE]
                IN
                Bind([m5 \in {
                          NewInst(m4, "move", <<paramVar, formalParam>>, <<>>, "",
                                  "void", path)
                } |->
                LET m6 == [m5 EXCEPT !.heap[Top(m5)].isArray = TRUE,
                                     !.heap[Top(m5)].dims = dimensions]
                IN
                    R(TRUE, m6, <<Top(m6)>>, paramVar)])])
        ELSE
            LET paramName == paramNode.name
                m1 == New(m, Obj("param", "", <<>>, <<>>, paramName, 0,
                                 typeNode.type, path))
                formalParam == Top(m1)
                m2 == [m1 EXCEPT !.funcs[m.cur].params = Append(@, formalParam)]
            IN
                IF newVarValueFails(m2, paramName) THEN R(FALSE, m2, <<>>, 0)
                ELSE
                LET m3 == newVarValue(m2, typeNode.type, paramName)
                IN
                Bind([paramVar \in {Top(m3)} |->
                Bind([m4 \in {
                          NewInst(m3, "move", <<paramVar, formalParam>>, <<>>, "",
                                  "void", path)
                } |->
                    R(TRUE, m4, <<Top(m4)>>, paramVar)])])

\* the loop of ir_function_formal_params: a son that is no formal parameter is
\* skipped, and the result of ir_function_formal_param is not looked at
RECURSIVE FormalParamsLoop(_, _, _, _, _)
FormalParamsLoop(node, i, m, path, acc) ==
    IF i > Len(node.sons) THEN R(TRUE, m, acc, 0)
    ELSE IF node.sons[i].node_type # "FUNC_FORMAL_PARAM"
         THEN FormalParamsLoop(node, i + 1, m, path, acc)
         ELSE
              Bind([r \in {
                       ir_function_formal_param(node.sons[i], m, path \o <<i>>)
              } |->
                  FormalParamsLoop(node, i + 1, r.m, path, acc \o r.insts)])

ir_function_formal_params(node, m, path) ==
    IF m.cur = 0 THEN R(FALSE, m, <<>>, 0)
    ELSE FormalParamsLoop(node, 1, m, path, <<>>)

\* main's return slot starts at 0: Move(retValue, 0) goes straight into the
\* function's InterCode, behind Entry
\* main treated like any other function
MainInit_none(m, name, retValue, path) == m

MainInit(m, name, retValue, path) ==
    IF name = "main"
    THEN
         LET m1 == newConstInt(m, 0)
             m2 == NewInst(m1, "move", <<retValue, findConstInt(m1, 0)>>, <<>>,
                           "", "void", path)
         IN
             addCode(m2, <<Top(m2)>>)
    ELSE m

ir_function_define(node, m, path) ==
    IF m.cur # 0 THEN R(FALSE, m, <<>>, 0)
    ELSE
    LET type_node == node.sons[1]
        name_node == node.sons[2]
        param_node == node.sons[3]
        block_node == node.sons[4]
        m1 == newFunction(m, name_node.name, type_node.type)
    IN
        IF Len(m1.funcs) = Len(m.funcs) THEN R(FALSE, m, <<>>, 0)
        ELSE
        LET m2 == enterScope(setCurrentFunction(m1, Len(m1.funcs)))
            m3 == NewInst(m2, "entry", <<>>, <<>>, "", "void", path)
        IN
        Bind([m4 \in {addCode(m3, <<Top(m3)>>)} |->
        LET m5 == NewInst(m4, "label", <<>>, <<>>, "", "void", path)
            exitLabelInst == Top(m5)
            m6 == [m5 EXCEPT !.funcs[m5.cur].exitLabel = exitLabelInst]
        IN
        Bind([params \in {
                      ir_function_formal_params(param_node, m6, path \o <<3>>)
        } |->
            IF ~params.ok THEN R(FALSE, params.m, <<>>, 0)
            ELSE
            LET isVoid == type_node.type = "void"
                m7 == IF isVoid THEN params.m
                      ELSE newVarValue(params.m, type_node.type, "")
                retValue == IF isVoid THEN 0 ELSE Top(m7)
            IN
            Bind([m8 \in {
                      IF isVoid THEN m7
                      ELSE MainInit(m7, name_node.name, retValue, path)
            } |->
            LET m9 == [m8 EXCEPT !.funcs[m8.cur].returnValue = retValue]
            IN
            Bind([block \in {
                         ir_block([block_node EXCEPT !.needScope = FALSE], m9,
                                  path \o <<4>>)
            } |->
                IF ~block.ok THEN R(FALSE, block.m, params.insts, 0)
                ELSE
                LET m10 == addCode(block.m, params.insts \o block.insts)
                    m11 == addCode(m10, <<exitLabelInst>>)
                IN
                Bind([m12 \in {
                           NewInst(m11, "exit",
                                   IF retValue = 0 THEN <<>> ELSE <<retValue>>,
                                   <<>>, "", "void", path)
                } |->
                LET m13 == addCode(m12, <<Top(m12)>>)
                IN
                    R(TRUE, leaveScope(setCurrentFunction(m13, 0)),
                      params.insts \o block.insts, 0)])])])])])

\* the argument loop of ir_function_call: left to right, stop at the first
\* argument whose translation fails; vals collects realParams
RECURSIVE RealParamsLoop(_, _, _, _, _, _)
RealParamsLoop(paramsNode, i, m, path, acc, vals) ==
    IF i > Len(paramsNode.sons) THEN [R(TRUE, m, acc, 0) EXCEPT !.val = vals]
    ELSE
         Bind([temp \in {
                     ir_visit_ast_node(paramsNode.sons[i], m, path \o <<i>>,
                                       paramsNode.node_type)
         } |->
             IF ~temp.ok THEN [R(FALSE, temp.m, acc, 0) EXCEPT !.val = vals]
             ELSE RealParamsLoop(paramsNode, i + 1, temp.m, path,
                                 acc \o temp.insts, Append(vals, temp.val))])

\* a call that does not compare the number of arguments with the parameters
ir_function_call_unchecked(node, m, path) ==
    LET funcName == node.sons[1].name
        calledFunction == findFunction(m, funcName)
    IN
    Bind([args \in {
                RealParamsLoop(node.sons[2], 1, m, path \o <<2>>, <<>>, <<>>)
    } |->
    LET m2 == NewInst(args.m, "call", args.val, <<>>, funcName,
                      args.m.funcs[calledFunction].returnType, path)
    IN
        IF calledFunction = 0 \/ ~args.ok THEN R(FALSE, args.m, args.insts, 0)
        ELSE R(TRUE, m2, args.insts \o <<Top(m2)>>, Top(m2))])

ir_function_call(node, m, path) ==
    LET funcName == node.sons[1].name
        paramsNode == node.sons[2]
        calledFunction == findFunction(m, funcName)
    IN
        IF calledFunction = 0 THEN R(FALSE, m, <<>>, 0)
        ELSE IF m.cur = 0 THEN R(FALSE, [m EXCEPT !.ub = TRUE], <<>>, 0)
        ELSE
        LET argsCount == Len(paramsNode.sons)
            m1 == [m EXCEPT !.funcs[m.cur].existFuncCall = TRUE,
                            !.funcs[m.cur].maxFuncCallArgCnt =
                                IF argsCount > @ THEN argsCount ELSE @]
        IN
        Bind([args \in {
                    RealParamsLoop(paramsNode, 1, m1, path \o <<2>>, <<>>, <<>>)
        } |->
            IF ~args.ok THEN R(FALSE, args.m, args.insts, 0)
            ELSE IF Len(args.val) # Len(args.m.funcs[calledFunction].params)
            THEN R(FALSE, args.m, args.insts, 0)
            ELSE
            LET m2 == NewInst(args.m, "call", args.val, <<>>, funcName,
                              args.m.funcs[calledFunction].returnType, path)
            IN
                R(TRUE, m2, args.insts \o <<Top(m2)>>, Top(m2))])

(***************************************************************************)
(* Declarations and arrays.                                                *)
(***************************************************************************)
ir_array_declare(node, m, path) ==
    IF Len(node.sons) < 1 THEN R(FALSE, m, <<>>, 0)
    ELSE IF \E i \in 2..Len(node.sons) : ~IsLiteralNode(node.sons[i])
    THEN R(FALSE, m, <<>>, 0)
    ELSE
    LET arrayName == node.sons[1].name
        dimensions == [i \in 1..(Len(node.sons) - 1) |-> node.sons[i + 1].integer_val]
        elementType == IF node.type # "" THEN node.type ELSE "int"
    IN
        IF newVarValueFails(m, arrayName) THEN R(FALSE, m, <<>>, 0)
        ELSE
        LET m1 == newVarValue(m, elementType, arrayName)
            arrayVar == Top(m1)
        IN
        Bind([m2 \in {
                  [m1 EXCEPT !.heap[arrayVar].dims = dimensions,
                             !.heap[arrayVar].isArray = TRUE]
        } |->
            R(TRUE, m2, <<>>, arrayVar)])

\* Value::getArrayDimensionMultiplier: product of the extents behind `dimension`
\* (dimension counts from 0)
RECURSIVE DimProduct(_, _)
DimProduct(dims, i) ==
    IF i > Len(dims) THEN 1 ELSE dims[i] * DimProduct(dims, i + 1)

\* a product that starts at the indexed dimension itself
getArrayDimensionMultiplier_inclusive(dims, dimension) ==
    DimProduct(dims, dimension + 1)

getArrayDimensionMultiplier(dims, dimension) == DimProduct(dims, dimension + 2)

\* one round of the index loop of ir_array_access; i counts from 0, and
\* totalOffset 0 is the null pointer of the first round
RECURSIVE ArrayIndexLoop(_, _, _, _, _, _, _)
ArrayIndexLoop(node, i, m, path, acc, totalOffset, dims) ==
    IF i >= Len(node.sons) - 1 THEN R(TRUE, m, acc, totalOffset)
    ELSE
    Bind([indexResult \in {
                       ir_visit_ast_node(node.sons[i + 2], m, path \o <<i + 2>>,
                                         node.node_type)
    } |->
        IF ~indexResult.ok THEN R(FALSE, indexResult.m, acc, 0)
        ELSE
        LET multiplier == getArrayDimensionMultiplier(dims, i)
            m1 == IF multiplier = 1 THEN indexResult.m
                  ELSE
                       LET mc == newConstInt(indexResult.m, multiplier)
                       IN
                           NewInst(mc, "mul",
                                   <<indexResult.val, findConstInt(mc, multiplier)>>,
                                   <<>>, "", "int", path)
            currentOffset == IF multiplier = 1 THEN indexResult.val ELSE Top(m1)
            i1 == IF multiplier = 1 THEN <<>> ELSE <<Top(m1)>>
        IN
        Bind([m2 \in {
                  IF totalOffset = 0 THEN m1
                  ELSE NewInst(m1, "add", <<totalOffset, currentOffset>>, <<>>, "",
                               "int", path)
        } |->
        LET i2 == IF totalOffset = 0 THEN <<>> ELSE <<Top(m2)>>
        IN
            ArrayIndexLoop(node, i + 1, m2, path,
                           acc \o indexResult.insts \o i1 \o i2,
                           IF totalOffset = 0 THEN currentOffset ELSE Top(m2), dims)])])

\* a son of an assignment, either one
IsAssignTarget_any_son(parent, path) == parent = "ASSIGN"

\* node->parent is an assignment and node is its first son
IsAssignTarget(parent, path) == parent = "ASSIGN" /\ Last(path) = 1

\* all the dimensions, whatever the number of indices
RemainingDims_all(dims, indexCount) == dims

\* the dimensions behind the indexed ones
RemainingDims(dims, indexCount) == SubSeq(dims, indexCount + 1, Len(dims))

ir_array_access(node, m, path, parent) ==
    IF Len(node.sons) < 2 THEN R(FALSE, m, <<>>, 0)
    ELSE
    LET arrayVar == findVarValue(m, node.sons[1].name)
        indexCount == Len(node.sons) - 1
    IN
        \* arrayVar->getType() on an unresolved name dereferences nullptr
        IF arrayVar = 0 THEN R(FALSE, [m EXCEPT !.ub = TRUE], <<>>, 0)
        ELSE
        LET elementType == m.heap[arrayVar].ty
            dims == m.heap[arrayVar].dims
        IN
        Bind([idx \in {ArrayIndexLoop(node, 0, m, path, <<>>, 0, dims)} |->
            IF ~idx.ok THEN R(FALSE, idx.m, idx.insts, 0)
            ELSE
            LET m1 == newConstInt(idx.m, 4)
                m2 == NewInst(m1, "mul", <<idx.val, findConstInt(m1, 4)>>, <<>>, "",
                              "int", path)
                byteOffsetInst == Top(m2)
            IN
            Bind([m3 \in {
                      NewInst(m2, "add", <<arrayVar, byteOffsetInst>>, <<>>, "",
                              "ptr", path)
            } |->
            LET addrInst == Top(m3)
                base == idx.insts \o <<byteOffsetInst, addrInst>>
            IN
                IF IsAssignTarget(parent, path)
                THEN R(TRUE, m3, base, addrInst)
                ELSE IF parent = "FUNC_REAL_PARAMS" /\ indexCount < Len(dims)
                THEN R(TRUE,
                       [m3 EXCEPT !.heap[addrInst].isArray = TRUE,
                                  !.heap[addrInst].dims =
                                      RemainingDims(dims, indexCount)],
                       base, addrInst)
                ELSE
                     LET m4 == NewInst(m3, "deref", <<addrInst>>, <<>>, "",
                                       elementType, path)
                     IN
                         R(TRUE, m4, base \o <<Top(m4)>>, Top(m4))])])

ir_variable_declare(node, m, path) ==
    IF Len(node.sons) < 2 THEN R(FALSE, m, <<>>, 0)
    ELSE
    LET typeNode == node.sons[1]
        varNode == node.sons[2]
    IN
        IF varNode.node_type = "ARRAY_DECL"
        THEN ir_visit_ast_node([varNode EXCEPT !.type = typeNode.type], m,
                               path \o <<2>>, node.node_type)
        ELSE IF varNode.node_type = "ASSIGN"
        THEN
            LET leftNode == varNode.sons[1]
                initExprNode == varNode.sons[2]
            IN
                IF leftNode.node_type = "ARRAY_DECL"
                THEN
                    Bind([arrayResult \in {
                            ir_visit_ast_node([leftNode EXCEPT !.type = typeNode.type],
                                              m, path \o <<2, 1>>, varNode.node_type)
                    } |->
                        IF ~arrayResult.ok THEN R(FALSE, arrayResult.m, <<>>, 0)
                        ELSE
                        Bind([initResult \in {
                                ir_visit_ast_node(initExprNode, arrayResult.m,
                                                  path \o <<2, 2>>, varNode.node_type)
                        } |->
                            IF ~initResult.ok
                            THEN R(FALSE, initResult.m, arrayResult.insts, 0)
                            ELSE IF initExprNode.node_type = "ARRAY_INIT"
                            THEN R(TRUE, initResult.m,
                                   arrayResult.insts \o initResult.insts,
                                   arrayResult.val)
                            ELSE
                            LET m1 == NewInst(initResult.m, "move",
                                              <<arrayResult.val, initResult.val>>,
                                              <<>>, "", "void", path)
                            IN
                                R(TRUE, m1,
                                  arrayResult.insts \o initResult.insts \o <<Top(m1)>>,
                                  arrayResult.val)])])
                ELSE
                    LET failed == newVarValueFails(m, leftNode.name)
                        m1 == newVarValue(m, typeNode.type, leftNode.name)
                        varValue == IF failed THEN 0 ELSE Top(m1)
                    IN
                    Bind([exprResult \in {
                                      ir_visit_ast_node(initExprNode, m1,
                                                        path \o <<2, 2>>,
                                                        varNode.node_type)
                    } |->
                        IF ~exprResult.ok THEN R(FALSE, exprResult.m, <<>>, varValue)
                        ELSE IF exprResult.m.cur = 0
                        THEN
                            \* global: `static Value * initVal` is set by the first
                            \* negative initializer and kept for the later ones
                            IF varValue = 0
                            THEN R(TRUE, [exprResult.m EXCEPT !.ub = TRUE], <<>>, 0)
                            ELSE IF initExprNode.node_type = "NEG"
                            THEN
                                LET n == 0 - initExprNode.sons[1].integer_val
                                    first == exprResult.m.staticInitVal = 0
                                    m2 == IF first THEN newConstInt(exprResult.m, n)
                                          ELSE exprResult.m
                                    initVal == IF first THEN findConstInt(m2, n)
                                               ELSE exprResult.m.staticInitVal
                                IN
                                    R(TRUE,
                                      setIsInitialized(
                                          setInitValue(
                                              [m2 EXCEPT !.staticInitVal = initVal],
                                              varValue, initVal),
                                          varValue, TRUE),
                                      <<>>, varValue)
                            ELSE R(TRUE,
                                   setIsInitialized(
                                       setInitValue(exprResult.m, varValue,
                                                    exprResult.val),
                                       varValue, TRUE),
                                   <<>>, varValue)
                        ELSE
                            LET m2 == NewInst(exprResult.m, "move",
                                              <<varValue, exprResult.val>>, <<>>, "",
                                              "void", path)
                            IN
                                R(TRUE, m2, exprResult.insts \o <<Top(m2)>>, varValue)])
        ELSE
            LET failed == newVarValueFails(m, varNode.name)
                m1 == newVarValue(m, typeNode.type, varNode.name)
            IN
                R(TRUE, m1, <<>>, IF failed THEN 0 ELSE Top(m1))

\* the loop of ir_declare_statment: result starts false and is the result of
\* the last declaration translated
RECURSIVE DeclLoop(_, _, _, _, _)
DeclLoop(node, i, m, path, acc) ==
    IF i > Len(node.sons) THEN R(i > 1, m, acc, 0)
    ELSE
         Bind([r \in {ir_variable_declare(node.sons[i], m, path \o <<i>>)} |->
             IF ~r.ok THEN R(FALSE, r.m, acc, 0)
             ELSE DeclLoop(node, i + 1, r.m, path, acc \o r.insts)])

ir_declare_statment(node, m, path) == DeclLoop(node, 1, m, path, <<>>)

(***************************************************************************)
(* Short-circuit translation with inherited true / false labels.           *)
(***************************************************************************)
NewLabel(m, path) == NewInst(m, "label", <<>>, <<>>, "", "void", path)

\* a lowering of && that gives the left operand the labels of ||
ir_logical_and_as_or(node, m, path, trueLabel, falseLabel) ==
    LET m1 == NewLabel(m, path)
        rightOperandLabel == Top(m1)
    IN
    Bind([left \in {
                ir_visit_ast_node_with_2_labels(node.sons[1], m1, path \o <<1>>,
                                                trueLabel, rightOperandLabel)
    } |->
    Bind([right \in {
                 ir_visit_ast_node_with_2_labels(node.sons[2], left.m,
                                                 path \o <<2>>, trueLabel,
                                                 falseLabel)
    } |->
        R(left.ok /\ right.ok, right.m,
          left.insts \o <<rightOperandLabel>> \o right.insts, 0)])])

ir_logical_and(node, m, path, trueLabel, falseLabel) ==
    LET m1 == NewLabel(m, path)
        rightOperandLabel == Top(m1)
    IN
    Bind([left \in {
                ir_visit_ast_node_with_2_labels(node.sons[1], m1, path \o <<1>>,
                                                rightOperandLabel, falseLabel)
    } |->
        IF ~left.ok THEN R(FALSE, left.m, <<>>, 0)
        ELSE
        Bind([right \in {
                     ir_visit_ast_node_with_2_labels(node.sons[2], left.m,
                                                     path \o <<2>>, trueLabel,
                                                     falseLabel)
        } |->
            IF ~right.ok
            THEN R(FALSE, right.m, left.insts \o <<rightOperandLabel>>, 0)
            ELSE R(TRUE, right.m,
                   left.insts \o <<rightOperandLabel>> \o right.insts, 0)])])

\* a lowering of || that gives the left operand the labels of &&
ir_logical_or_as_and(node, m, path, trueLabel, falseLabel) ==
    LET m1 == NewLabel(m, path)
        rightOperandLabel == Top(m1)
    IN
    Bind([left \in {
                ir_visit_ast_node_with_2_labels(node.sons[1], m1, path \o <<1>>,
                                                rightOperandLabel, falseLabel)
    } |->
    Bind([right \in {
                 ir_visit_ast_node_with_2_labels(node.sons[2], left.m,
                                                 path \o <<2>>, trueLabel,
                                                 falseLabel)
    } |->
        R(left.ok /\ right.ok, right.m,
          left.insts \o <<rightOperandLabel>> \o right.insts, 0)])])

ir_logical_or(node, m, path, trueLabel, falseLabel) ==
    LET m1 == NewLabel(m, path)
        rightOperandLabel == Top(m1)
    IN
    Bind([left \in {
                ir_visit_ast_node_with_2_labels(node.sons[1], m1, path \o <<1>>,
                                                trueLabel, rightOperandLabel)
    } |->
        IF ~left.ok THEN R(FALSE, left.m, <<>>, 0)
        ELSE
        Bind([right \in {
                     ir_visit_ast_node_with_2_labels(node.sons[2], left.m,
                                                     path \o <<2>>, trueLabel,
                                                     falseLabel)
        } |->
            IF ~right.ok
            THEN R(FALSE, right.m, left.insts \o <<rightOperandLabel>>, 0)
            ELSE R(TRUE, right.m,
                   left.insts \o <<rightOperandLabel>> \o right.insts, 0)])])

\* cmp_eq(left, 0) followed by the conditional branch: the leaf case of both
\* ir_logical_not overloads
NotLeaf(left, path, trueLabel, falseLabel) ==
    LET m1 == newConstInt(left.m, 0)
        m2 == NewInst(m1, "cmp_eq", <<left.val, findConstInt(m1, 0)>>, <<>>, "",
                      "bool", path)
        cmpInst == Top(m2)
        m3 == CondGotoInstruction(m2, cmpInst, trueLabel, falseLabel, path)
    IN
        R(TRUE, m3, left.insts \o <<cmpInst, Top(m3)>>, 0)

ir_logical_not_labels(node, m, path, trueLabel, falseLabel) ==
    IF isLeafNode(node.sons[1])
    THEN
         Bind([left \in {
                     ir_visit_ast_node(node.sons[1], m, path \o <<1>>,
                                       node.node_type)
         } |->
             IF ~left.ok THEN R(FALSE, left.m, <<>>, 0)
             ELSE NotLeaf(left, path, trueLabel, falseLabel)])
    ELSE
         Bind([operand \in {
                        ir_visit_ast_node_with_2_labels(node.sons[1], m,
                                                        path \o <<1>>, falseLabel,
                                                        trueLabel)
         } |->
             IF ~operand.ok THEN R(FALSE, operand.m, <<>>, 0)
             ELSE R(TRUE, operand.m, operand.insts, 0)])

\* `!e` as a value
ir_logical_not(node, m, path) ==
    LET m1 == NewLabel(m, path)
        trueLabel == Top(m1)
        m2 == NewLabel(m1, path)
        falseLabel == Top(m2)
        m3 == NewLabel(m2, path)
        endLabel == Top(m3)
        m4 == newVarValue(m3, "int", "")
        varValue == Top(m4)
    IN
        IF isLeafNode(node.sons[1])
        THEN
             Bind([left \in {
                         ir_visit_ast_node(node.sons[1], m4, path \o <<1>>,
                                           node.node_type)
             } |->
                 IF ~left.ok THEN R(FALSE, left.m, <<>>, 0)
                 ELSE
                 LET c == NotLeaf(left, path, trueLabel, falseLabel)
                     m5 == newConstInt(c.m, 1)
                 IN
                 Bind([m6 \in {
                           NewInst(m5, "move", <<varValue, findConstInt(m5, 1)>>,
                                   <<>>, "", "void", path)
                 } |->
                 LET trueAssignInst == Top(m6)
                     m7 == NewInst(m6, "goto", <<>>, <<endLabel>>, "", "void", path)
                     gotoEnd == Top(m7)
                     m8 == newConstInt(m7, 0)
                 IN
                 Bind([m9 \in {
                           NewInst(m8, "move", <<varValue, findConstInt(m8, 0)>>,
                                   <<>>, "", "void", path)
                 } |->
                 LET falseAssignInst == Top(m9)
                 IN
                     R(TRUE, m9,
                       c.insts \o <<trueLabel, trueAssignInst, gotoEnd, falseLabel,
                                    falseAssignInst, endLabel>>,
                       varValue)])])])
        ELSE
             Bind([operand \in {
                            ir_visit_ast_node_with_2_labels(node.sons[1], m4,
                                                            path \o <<1>>,
                                                            falseLabel, trueLabel)
             } |->
                 IF ~operand.ok THEN R(FALSE, operand.m, <<>>, 0)
                 ELSE R(TRUE, operand.m, operand.insts, 0)])

\* ir_equal, ir_not_equal, ir_less_than, ir_less_equal, ir_greater_than,
\* ir_greater_equal share one body up to the comparison operator
Relational(node, m, path, op, trueLabel, falseLabel) ==
    Bind([left \in {
                ir_visit_ast_node(node.sons[1], m, path \o <<1>>, node.node_type)
    } |->
        IF ~left.ok THEN R(FALSE, left.m, <<>>, 0)
        ELSE
        Bind([right \in {
                     ir_visit_ast_node(node.sons[2], left.m, path \o <<2>>,
                                       node.node_type)
        } |->
            IF ~right.ok THEN R(FALSE, right.m, <<>>, 0)
            ELSE
            LET m1 == NewInst(right.m, op, <<left.val, right.val>>, <<>>, "",
                              "bool", path)
                cmpInst == Top(m1)
                m2 == CondGotoInstruction(m1, cmpInst, trueLabel, falseLabel, path)
            IN
                R(TRUE, m2, left.insts \o right.insts \o <<cmpInst, Top(m2)>>, 0)])])

ir_equal(node, m, path, t, f) == Relational(node, m, path, "cmp_eq", t, f)
ir_not_equal(node, m, path, t, f) == Relational(node, m, path, "cmp_ne", t, f)
ir_less_than(node, m, path, t, f) == Relational(node, m, path, "cmp_lt", t, f)
ir_less_equal(node, m, path, t, f) == Relational(node, m, path, "cmp_le", t, f)
ir_greater_than(node, m, path, t, f) == Relational(node, m, path, "cmp_gt", t, f)
ir_greater_equal(node, m, path, t, f) == Relational(node, m, path, "cmp_ge", t, f)

(***************************************************************************)
(* Control flow statements.                                                *)
(***************************************************************************)
\* ir_if_statement without the Goto(endIfLabel) behind the then-body
ir_if_statement_fall_through(node, m, path) ==
    LET condNode == node.sons[1]
        thenNode == node.sons[2]
        hasElse == Len(node.sons) > 2
        m1 == NewLabel(m, path)
        thenLabel == Top(m1)
        m2 == IF hasElse THEN NewLabel(m1, path) ELSE m1
        elseLabel == IF hasElse THEN Top(m2) ELSE 0
        m3 == NewLabel(m2, path)
        endIfLabel == Top(m3)
    IN
    Bind([condition \in {
                     ir_visit_ast_node_with_2_labels(
                         condNode, m3, path \o <<1>>, thenLabel,
                         IF hasElse THEN elseLabel ELSE endIfLabel)
    } |->
        IF ~condition.ok THEN R(FALSE, condition.m, <<>>, 0)
        ELSE
        LET i1 == condition.insts \o <<thenLabel>>
        IN
        Bind([thenResult \in {
                          ir_visit_ast_node(thenNode, condition.m, path \o <<2>>,
                                            node.node_type)
        } |->
            IF ~thenResult.ok THEN R(FALSE, thenResult.m, i1, 0)
            ELSE IF ~hasElse
            THEN R(TRUE, thenResult.m, i1 \o thenResult.insts \o <<endIfLabel>>, 0)
            ELSE
            Bind([i2 \in {i1 \o thenResult.insts \o <<elseLabel>>} |->
            Bind([elseResult \in {
                              ir_visit_ast_node(node.sons[3], thenResult.m,
                                                path \o <<3>>, node.node_type)
            } |->
                IF ~elseResult.ok THEN R(FALSE, elseResult.m, i2, 0)
                ELSE R(TRUE, elseResult.m,
                       i2 \o elseResult.insts \o <<endIfLabel>>, 0)])])])])

ir_if_statement(node, m, path) ==
    LET condNode == node.sons[1]
        thenNode == node.sons[2]
        hasElse == Len(node.sons) > 2
        m1 == NewLabel(m, path)
        thenLabel == Top(m1)
        m2 == IF hasElse THEN NewLabel(m1, path) ELSE m1
        elseLabel == IF hasElse THEN Top(m2) ELSE 0
        m3 == NewLabel(m2, path)
        endIfLabel == Top(m3)
    IN
    Bind([condition \in {
                     ir_visit_ast_node_with_2_labels(
                         condNode, m3, path \o <<1>>, thenLabel,
                         IF hasElse THEN elseLabel ELSE endIfLabel)
    } |->
        IF ~condition.ok THEN R(FALSE, condition.m, <<>>, 0)
        ELSE
        LET i1 == condition.insts \o <<thenLabel>>
        IN
        Bind([thenResult \in {
                          ir_visit_ast_node(thenNode, condition.m, path \o <<2>>,
                                            node.node_type)
        } |->
            IF ~thenResult.ok THEN R(FALSE, thenResult.m, i1, 0)
            ELSE IF ~hasElse
            THEN R(TRUE, thenResult.m, i1 \o thenResult.insts \o <<endIfLabel>>, 0)
            ELSE
            LET m4 == NewInst(thenResult.m, "goto", <<>>, <<endIfLabel>>, "",
                              "void", path)
            IN
            Bind([i2 \in {i1 \o thenResult.insts \o <<Top(m4), elseLabel>>} |->
            Bind([elseResult \in {
                              ir_visit_ast_node(node.sons[3], m4, path \o <<3>>,
                                                node.node_type)
            } |->
                IF ~elseResult.ok THEN R(FALSE, elseResult.m, i2, 0)
                ELSE R(TRUE, elseResult.m,
                       i2 \o elseResult.insts \o <<endIfLabel>>, 0)])])])])

\* a loop that leaves its labels on the stacks when it is done
\* the body in front of the condition: a loop that tests after each pass
WhileCode_test_behind(entryLabel, condInsts, bodyLabel, bodyInsts, back, exitLabel) ==
    <<entryLabel, bodyLabel>> \o bodyInsts \o condInsts \o <<back, exitLabel>>

\* the order in which ir_while_statement appends to node->blockInsts
WhileCode(entryLabel, condInsts, bodyLabel, bodyInsts, back, exitLabel) ==
    <<entryLabel>> \o condInsts \o <<bodyLabel>> \o bodyInsts \o <<back, exitLabel>>

ir_while_statement_no_pop(node, m, path) ==
    LET m1 == NewLabel(m, path)
        loopEntryLabel == Top(m1)
        m2 == NewLabel(m1, path)
        loopBodyLabel == Top(m2)
        m3 == NewLabel(m2, path)
        loopExitLabel == Top(m3)
        m4 == pushContinueLabel(pushBreakLabel(m3, loopExitLabel), loopEntryLabel)
    IN
    Bind([condition \in {
                     ir_visit_ast_node_with_2_labels(node.sons[1], m4,
                                                     path \o <<1>>,
                                                     loopBodyLabel, loopExitLabel)
    } |->
    Bind([bodyResult \in {
                      ir_visit_ast_node(node.sons[2], condition.m, path \o <<2>>,
                                        node.node_type)
    } |->
    LET m5 == NewInst(bodyResult.m, "goto", <<>>, <<loopEntryLabel>>, "", "void",
                      path)
    IN
        R(condition.ok /\ bodyResult.ok, m5,
          <<loopEntryLabel>> \o condition.insts \o <<loopBodyLabel>>
              \o bodyResult.insts \o <<Top(m5), loopExitLabel>>, 0)])])

ir_while_statement(node, m, path) ==
    LET condNode == node.sons[1]
        bodyNode == node.sons[2]
        m1 == NewLabel(m, path)
        loopEntryLabel == Top(m1)
        m2 == NewLabel(m1, path)
        loopBodyLabel == Top(m2)
        m3 == NewLabel(m2, path)
        loopExitLabel == Top(m3)
        m4 == pushContinueLabel(pushBreakLabel(m3, loopExitLabel), loopEntryLabel)
    IN
    Bind([condition \in {
                     ir_visit_ast_node_with_2_labels(condNode, m4, path \o <<1>>,
                                                     loopBodyLabel, loopExitLabel)
    } |->
        IF ~condition.ok THEN R(FALSE, condition.m, <<loopEntryLabel>>, 0)
        ELSE
        LET i1 == <<loopEntryLabel>> \o condition.insts \o <<loopBodyLabel>>
        IN
        Bind([bodyResult \in {
                          ir_visit_ast_node(bodyNode, condition.m, path \o <<2>>,
                                            node.node_type)
        } |->
            IF ~bodyResult.ok THEN R(FALSE, bodyResult.m, i1, 0)
            ELSE
            LET m5 == NewInst(bodyResult.m, "goto", <<>>, <<loopEntryLabel>>, "",
                              "void", path)
            IN
                R(TRUE, popContinueLabel(popBreakLabel(m5)),
                  WhileCode(loopEntryLabel, condition.insts, loopBodyLabel,
                            bodyResult.insts, Top(m5), loopExitLabel), 0)])])

\* a `break` that does not look whether there is a loop
ir_break_statement_unchecked(node, m, path) ==
    LET m1 == NewInst(m, "goto", <<>>, <<getBreakLabel(m)>>, "", "void", path)
    IN
        R(TRUE, m1, <<Top(m1)>>, 0)

ir_break_statement(node, m, path) ==
    LET breakLabel == getBreakLabel(m)
    IN
        IF breakLabel = 0 THEN R(FALSE, m, <<>>, 0)
        ELSE
             LET m1 == NewInst(m, "goto", <<>>, <<breakLabel>>, "", "void", path)
             IN
                 R(TRUE, m1, <<Top(m1)>>, 0)

ir_continue_statement(node, m, path) ==
    LET continueLabel == getContinueLabel(m)
    IN
        IF continueLabel = 0 THEN R(FALSE, m, <<>>, 0)
        ELSE
             LET m1 == NewInst(m, "goto", <<>>, <<continueLabel>>, "", "void", path)
             IN
                 R(TRUE, m1, <<Top(m1)>>, 0)

(***************************************************************************)
(* Dispatch.                                                               *)
(***************************************************************************)
\* ast2ir_handlers, as the constructor fills it; a node type with no entry
\* goes to ir_default
ir_visit_ast_node(node, m, path, parent) ==
    LET t == node.node_type
    IN
        CASE t = "NULL" -> R(FALSE, m, <<>>, 0)
          [] t = "LEAF_LITERAL_UINT" -> ir_leaf_node_uint(node, m, path)
          [] t = "LEAF_VAR_ID" -> ir_leaf_node_var_id(node, m, path)
          [] t = "LEAF_TYPE" -> ir_leaf_node_type(node, m, path)
          [] t = "SUB" -> ir_sub(node, m, path)
          [] t = "ADD" -> ir_add(node, m, path)
          [] t = "NEG" -> ir_neg(node, m, path)
          [] t = "MUL" -> ir_mul(node, m, path)
          [] t = "DIV" -> ir_div(node, m, path)
          [] t = "MOD" -> ir_mod(node, m, path)
          [] t = "NOT" -> ir_logical_not(node, m, path)
          [] t = "IF" -> ir_if_statement(node, m, path)
          [] t = "WHILE" -> ir_while_statement(node, m, path)
          [] t = "BREAK" -> ir_break_statement(node, m, path)
          [] t = "CONTINUE" -> ir_continue_statement(node, m, path)
          [] t = "ASSIGN" -> ir_assign(node, m, path)
          [] t = "RETURN" -> ir_return(node, m, path)
          [] t = "FUNC_CALL" -> ir_function_call(node, m, path)
          [] t = "FUNC_DEF" -> ir_function_define(node, m, path)
          [] t = "FUNC_FORMAL_PARAMS" -> ir_function_formal_params(node, m, path)
          [] t = "DECL_STMT" -> ir_declare_statment(node, m, path)
          [] t = "VAR_DECL" -> ir_variable_declare(node, m, path)
          [] t = "ARRAY_DECL" -> ir_array_declare(node, m, path)
          [] t = "ARRAY_ACCESS" -> ir_array_access(node, m, path, parent)
          [] t = "BLOCK" -> ir_block(node, m, path)
          [] t = "COMPILE_UNIT" -> ir_compile_unit(node, m, path)
          [] OTHER -> ir_default(node, m, path)

\* any other node is compared with zero: the node becomes the left son of a
\* new `!=` node, whose parent pointer it then carries
ir_visit_ast_node_with_2_labels(node, m, path, trueLabel, falseLabel) ==
    LET t == node.node_type
    IN
        CASE t = "AND" -> ir_logical_and(node, m, path, trueLabel, falseLabel)
          [] t = "OR" -> ir_logical_or(node, m, path, trueLabel, falseLabel)
          [] t = "NOT" -> ir_logical_not_labels(node, m, path, trueLabel, falseLabel)
          [] t = "EQ" -> ir_equal(node, m, path, trueLabel, falseLabel)
          [] t = "NE" -> ir_not_equal(node, m, path, trueLabel, falseLabel)
          [] t = "LT" -> ir_less_than(node, m, path, trueLabel, falseLabel)
          [] t = "LE" -> ir_less_equal(node, m, path, trueLabel, falseLabel)
          [] t = "GT" -> ir_greater_than(node, m, path, trueLabel, falseLabel)
          [] t = "GE" -> ir_greater_equal(node, m, path, trueLabel, falseLabel)
          [] t = "NEG" -> ir_neg_labels(node, m, path, trueLabel, falseLabel)
          [] OTHER -> ir_not_equal(Op2("NE", node, Uint(0)), m, path, trueLabel,
                                   falseLabel)

\* IRGenerator::run(): the translation of the root, and whether it succeeded
Lowered(ast) == ir_visit_ast_node(ast, EmptyModule, <<>>, "")

(***************************************************************************)
(* Programs handed to the generator.                                       *)
(***************************************************************************)
\* conditions over the parameters a and b: comparisons, a division that
\* faults when a is 0, a bare variable, a negation, and && / || over them,
\* nested on either side
BoolLeaves ==
    { Var("b"),
      Op2("EQ", Var("a"), Uint(0)),
      Op2("GT", Op2("DIV", Uint(1), Var("a")), Uint(0)),
      Op1("NOT", Var("b")) }

BoolConds1 == {Op2(o, x, y) : o \in {"AND", "OR"}, x \in BoolLeaves, y \in BoolLeaves}

BoolConds2 ==
    {Op2(o, x, y) : o \in {"AND", "OR"}, x \in BoolConds1, y \in BoolLeaves}
    \cup {Op2(o, x, y) : o \in {"AND", "OR"}, x \in BoolLeaves, y \in BoolConds1}
    \cup {Op1("NOT", x) : x \in BoolConds1}

\* int f(int a, int b) { if (c) return 1; return 0; }
BoolProgram(c) ==
    CompileUnit(<<FuncDef("int", "f", <<Param("a"), Param("b")>>,
                          <<If(c, Return(Uint(1))), Return(Uint(0))>>)>>)

BoolPrograms == {BoolProgram(c) : c \in BoolConds1 \cup BoolConds2}

\* function bodies of up to two statements that return from various places
\* (or from none), in int and void functions, main among them
FuncStmts ==
    { Return(Var("a")),
      Return(Uint(1)),
      ReturnVoid,
      If(Var("a"), Return(Uint(1))),
      IfElse(Var("a"), Return(Uint(1)), ReturnVoid),
      While(Op2("LT", Var("a"), Uint(2)),
            Block(<<Assign(Var("a"), Op2("ADD", Var("a"), Uint(1)))>>)),
      While(Var("a"), Block(<<Return(Var("a"))>>)),
      Assign(Var("a"), Op2("ADD", Var("a"), Uint(1))) }

FuncBodies ==
    {<<>>} \cup {<<s>> : s \in FuncStmts} \cup {<<s, t>> : s \in FuncStmts, t \in FuncStmts}

FuncPrograms ==
    { CompileUnit(<<FuncDef(ty, name, <<Param("a")>>, body)>>) :
        ty \in {"int", "void"}, name \in {"f", "main"}, body \in FuncBodies }
    \cup
    { CompileUnit(<<FuncDef("int", "f", <<Param("a")>>, b1),
                   FuncDef("int", "main", <<Param("a"), Param("b")>>, b2)>>) :
        b1 \in {<<>>, <<Return(Var("a"))>>},
        b2 \in {<<s>> : s \in FuncStmts} }

\* arrays of one to three dimensions with extents 1..MaxDim, declared locally
\* or received as a parameter, accessed with some or all of their indices as
\* a value, as the target of an assignment and as an argument of a call
Ranks == {1, 2, 3}

ArrDims == UNION {[1..n -> 1..MaxDim] : n \in Ranks}

ArrIndexLists ==
    { <<Var("i"), Var("j"), Var("i")>>,
      <<Op2("ADD", Var("i"), Uint(1)), Uint(1), Var("j")>> }

ArrUses(idx) ==
    { <<Return(ArrayAccess("a", idx))>>,
      <<Assign(ArrayAccess("a", idx), Uint(1)), Return(Uint(0))>>,
      <<Call("g", <<ArrayAccess("a", idx)>>), Return(Uint(0))>> }

ArrCallee == FuncDef("int", "g", <<ArrayParam("b", <<>>)>>, <<Return(Uint(0))>>)

ArrUsesIn(dims) ==
    UNION {ArrUses(SubSeq(idx, 1, k)) : idx \in ArrIndexLists, k \in 1..Len(dims)}

ArrPrograms ==
    UNION { { CompileUnit(<<ArrCallee,
                            FuncDef("int", "f", <<Param("i"), Param("j")>>,
                                    <<Decl(ArrayDecl("a", dims))>> \o use)>>) :
                use \in ArrUsesIn(dims) } : dims \in ArrDims }
    \cup
    UNION { { CompileUnit(<<ArrCallee,
                            FuncDef("int", "f",
                                    <<ArrayParam("a", SubSeq(dims, 2, Len(dims))),
                                      Param("i"), Param("j")>>, use)>>) :
                use \in ArrUsesIn(dims) } : dims \in ArrDims }

\* int f(int a, int b) { s1; while (a < 2) { s2; while (b < 2) { s3; b = b + 1; }
\* s4; a = a + 1; } s5; return a; } with break / continue (bare, or under an
\* if) in any of the five places, and three loops nested in one another
Incr(name) == Assign(Var(name), Op2("ADD", Var(name), Uint(1)))

LoopSimple ==
    { Break, Continue, Incr("a"), If(Var("b"), Break),
      If(Op2("EQ", Var("a"), Uint(1)), Block(<<Continue>>)) }

LoopOutside == {Incr("a"), Break, Continue, If(Var("a"), Break)}

LoopNest(s1, s2, s3, s4, s5) ==
    <<s1,
      While(Op2("LT", Var("a"), Uint(2)),
            Block(<<s2,
                    While(Op2("LT", Var("b"), Uint(2)),
                          Block(<<s3, Incr("b")>>)),
                    s4, Incr("a")>>)),
      s5, Return(Var("a"))>>

LoopDeep(s1, s2, s3) ==
    <<While(Var("a"),
            Block(<<While(Var("b"),
                          Block(<<While(Op2("LT", Var("a"), Var("b")),
                                        Block(<<s1>>)),
                                  s2>>)),
                    s3>>)),
      Return(Var("a"))>>

LoopProgram(body) ==
    CompileUnit(<<FuncDef("int", "f", <<Param("a"), Param("b")>>, body)>>)

LoopPrograms ==
    { LoopProgram(LoopNest(s1, s2, s3, s4, s5)) :
        s1 \in LoopOutside, s2 \in LoopSimple, s3 \in LoopSimple,
        s4 \in LoopSimple, s5 \in LoopOutside }
    \cup
    { LoopProgram(LoopDeep(s1, s2, s3)) :
        s1 \in {Break, Continue}, s2 \in {Break, Continue},
        s3 \in {Break, Continue} }

\* int h(int x) { return x; }  int g(<n parameters>) { return 0; }
\* int f(int a) { return g(<k arguments>); }  or  { g(<k arguments>); return 0; }
\* with k and n in 0..3 and arguments that are variables, literals, sums and
\* calls of h with the right and with the wrong number of arguments
Arities == 0..3

ArgExprs ==
    { Var("a"), Uint(1), Op2("ADD", Var("a"), Uint(1)),
      Call("h", <<Var("a")>>), Call("h", <<>>) }

ArgLists == UNION {[1..k -> ArgExprs] : k \in Arities}

CallParams == <<Param("p"), Param("q"), Param("r")>>

CallPrograms ==
    { CompileUnit(<<FuncDef("int", "h", <<Param("x")>>, <<Return(Var("x"))>>),
                    FuncDef("int", "g", SubSeq(CallParams, 1, n),
                            <<Return(Uint(0))>>),
                    FuncDef("int", "f", <<Param("a")>>, body)>>) :
        n \in Arities,
        body \in UNION { { <<Return(Call("g", args))>>,
                           <<Call("g", args), Return(Uint(0))>> } :
                         args \in ArgLists } }

\* int main(int a) { <s>; return 0; } where s mentions x, which no enclosing
\* scope declares: as a statement of its own, in a nested block, behind a
\* block that declared an x of its own, in a loop body, under an if, and as
\* an operand, a condition, a returned value, an assigned value or target
UndefStmts ==
    { Var("x"),
      Block(<<Block(<<Var("x")>>)>>),
      If(Var("a"), Var("x")),
      IfElse(Var("a"), Incr("a"), Block(<<Var("x")>>)),
      While(Op2("LT", Var("a"), Uint(2)), Block(<<Var("x"), Incr("a")>>)),
      Op2("ADD", Var("x"), Uint(1)),
      If(Var("x"), Incr("a")),
      Return(Var("x")),
      Assign(Var("a"), Var("x")),
      Assign(Var("x"), Var("a")) }

UndefPrograms ==
    { CompileUnit(<<FuncDef("int", "main", <<Param("a")>>,
                            pre \o <<s, Return(Uint(0))>>)>>) :
        pre \in {<<>>, <<Incr("a")>>, <<Block(<<Decl(Var("x"))>>)>>},
        s \in UndefStmts }

\* int f(int a, int b) { return !e; } and { b = !e; return b; }: `!` as a
\* value, of a variable, of a literal and of compound expressions
NotOperands ==
    { Var("a"), Uint(0), Uint(1),
      Op2("LT", Var("a"), Var("b")),
      Op2("AND", Var("a"), Var("b")),
      Op1("NOT", Var("a")),
      Op2("ADD", Var("a"), Var("b")) }

NotPrograms ==
    { CompileUnit(<<FuncDef("int", "f", <<Param("a"), Param("b")>>, body)>>) :
        body \in UNION { { <<Return(Op1("NOT", e))>>,
                           <<Assign(Var("b"), Op1("NOT", e)), Return(Var("b"))>> } :
                         e \in NotOperands } }

\* int g(int x) { return x; }  int f(int a, int b) { ... e ... }: a relational
\* or logical expression e (and, to compare, a sum) as the right-hand side of
\* an assignment, a returned value, an operand of `+`, an argument, an
\* initializer
RelOps == {"EQ", "NE", "LT", "LE", "GT", "GE", "AND", "OR"}

RelUses(e) ==
    { <<Assign(Var("b"), e), Return(Var("b"))>>,
      <<Return(e)>>,
      <<Return(Op2("ADD", e, Uint(1)))>>,
      <<Return(Call("g", <<e>>))>>,
      <<Decl(Assign(Var("r"), e)), Return(Var("r"))>> }

RelPrograms ==
    { CompileUnit(<<FuncDef("int", "g", <<Param("x")>>, <<Return(Var("x"))>>),
                    FuncDef("int", "f", <<Param("a"), Param("b")>>, body)>>) :
        body \in UNION { RelUses(Op2(op, Var("a"), Var("b"))) :
                            op \in RelOps \cup {"ADD"} } }

\* int f(int i, int j) { int a[d0]..[dn]; a[i][j][0] = v; return a[i][j][0]; }
\* with as many indices as the array has dimensions
RoundTripPrograms ==
    { CompileUnit(<<FuncDef("int", "f", <<Param("i"), Param("j")>>,
                            <<Decl(ArrayDecl("a", dims)),
                              Assign(ArrayAccess("a", SubSeq(idx, 1, Len(dims))), v),
                              Return(ArrayAccess("a", SubSeq(idx, 1, Len(dims))))>>)>>) :
        dims \in ArrDims, idx \in {<<Var("i"), Var("j"), Uint(0)>>},
        v \in {Uint(1), Uint(7)} }

\* global declarations `int g;`, `int g = L;`, `int g = -L;`, `int g = 1 < 2;`,
\* `int g = u;` (u is declared nowhere) followed by int f(int a) { return a; }
GlobalInits == {<<>>} \cup {<<Uint(l)>> : l \in 1..MaxVal}
                     \cup {<<Op1("NEG", Uint(l))>> : l \in 1..MaxVal}
                     \cup {<<Op2("LT", Uint(1), Uint(2))>>, <<Var("u")>>}

GlobalNames == <<"g", "h", "k">>

GlobalDecl(i, e) ==
    IF e = <<>> THEN Decl(Var(GlobalNames[i]))
    ELSE Decl(Assign(Var(GlobalNames[i]), e[1]))

GlobalPrograms ==
    { CompileUnit([i \in 1..Len(es) |-> GlobalDecl(i, es[i])]
                  \o <<FuncDef("int", "f", <<Param("a")>>, <<Return(Var("a"))>>)>>) :
        es \in UNION {[1..n -> GlobalInits] : n \in 1..Len(GlobalNames)} }

\* void g(int x) { return; }  int h(int x) { return x; }  and a function f
\* that returns through one or two `return` statements: int f(int a) with
\* `return e;` (e of type int, or the call of the void g), void f(int a)
\* with `return;`
RetExprs ==
    { Var("a"), Uint(1), Op2("ADD", Var("a"), Uint(1)), Op1("NEG", Var("a")),
      Call("h", <<Var("a")>>), Call("g", <<Var("a")>>),
      Op2("MUL", Call("h", <<Op2("SUB", Var("a"), Uint(1))>>), Uint(2)) }

RetBodies(rets) ==
    {<<r>> : r \in rets} \cup {<<If(Var("a"), r1), r2>> : r1 \in rets, r2 \in rets}

RetPrograms ==
    { CompileUnit(<<FuncDef("void", "g", <<Param("x")>>, <<ReturnVoid>>),
                    FuncDef("int", "h", <<Param("x")>>, <<Return(Var("x"))>>),
                    FuncDef(ty, "f", <<Param("a")>>, body)>>) :
        ty \in {"int"}, body \in RetBodies({Return(e) : e \in RetExprs}) }
    \cup
    { CompileUnit(<<FuncDef("void", "g", <<Param("x")>>, <<ReturnVoid>>),
                    FuncDef("int", "h", <<Param("x")>>, <<Return(Var("x"))>>),
                    FuncDef(ty, "f", <<Param("a")>>, body)>>) :
        ty \in {"void"}, body \in RetBodies({ReturnVoid}) }

\* int h(int x) { return x; }
\* int f(int i, int j) { int a[2][2]; int b; lhs = rhs; return b; }
AssignTargets ==
    { Var("b"),
      ArrayAccess("a", <<Var("i"), Var("j")>>),
      ArrayAccess("a", <<Op2("ADD", Var("i"), Uint(1)), Uint(0)>>),
      ArrayAccess("a", <<Call("h", <<Var("i")>>), Var("j")>>) }

AssignedExprs ==
    { Uint(1), Var("i"), Op2("ADD", Var("i"), Var("j")),
      ArrayAccess("a", <<Var("j"), Var("i")>>),
      Call("h", <<Var("j")>>),
      Op2("ADD", Op2("MUL", Var("i"), Var("j")), Uint(1)) }

AssignPrograms ==
    { CompileUnit(<<FuncDef("int", "h", <<Param("x")>>, <<Return(Var("x"))>>),
                    FuncDef("int", "f", <<Param("i"), Param("j")>>,
                            <<Decl(ArrayDecl("a", <<2, 2>>)), Decl(Var("b")),
                              Assign(l, r), Return(Var("b"))>>)>>) :
        l \in AssignTargets, r \in AssignedExprs }

\* int g(int b[]) { return 0; }  int h(int x) { return x; }
\* int f(int i, int j) { int a[dims]; <use of a[idx]> }, and the same with a
\* as the first formal parameter of f; idx has 1..Len(dims) indices
AccessUses(e) ==
    { <<Return(e)>>,
      <<Assign(e, Uint(1)), Return(Uint(0))>>,
      <<Assign(e, e), Return(Uint(0))>>,
      <<Call("g", <<e>>), Return(Uint(0))>>,
      <<Call("h", <<e>>), Return(Uint(0))>>,
      <<Call("h", <<Op2("ADD", e, Uint(1))>>), Return(Uint(0))>>,
      <<Decl(Assign(Var("b"), e)), Return(Var("b"))>>,
      <<If(e, Return(Uint(1))), Return(Uint(0))>>,
      <<Assign(ArrayAccess("a", <<e>>), Uint(1)), Return(Uint(0))>> }

AccessIndices == <<Var("i"), Var("j"), Uint(0)>>

AccessUsesIn(dims) ==
    UNION {AccessUses(ArrayAccess("a", SubSeq(AccessIndices, 1, k))) :
              k \in 1..Len(dims)}

\* neighbouring extents differ, so that a shifted sequence is another one
AccessDims == {<<1>>, <<2>>, <<1, 2>>, <<2, 1>>, <<1, 2, 1>>, <<2, 1, 2>>}

AccessCallees ==
    <<FuncDef("int", "g", <<ArrayParam("b", <<>>)>>, <<Return(Uint(0))>>),
      FuncDef("int", "h", <<Param("x")>>, <<Return(Var("x"))>>)>>

AccessPrograms ==
    UNION { { CompileUnit(AccessCallees \o
                          <<FuncDef("int", "f", <<Param("i"), Param("j")>>,
                                    <<Decl(ArrayDecl("a", dims))>> \o use)>>) :
                use \in AccessUsesIn(dims) } : dims \in AccessDims }
    \cup
    UNION { { CompileUnit(AccessCallees \o
                          <<FuncDef("int", "f",
                                    <<ArrayParam("a", SubSeq(dims, 2, Len(dims))),
                                      Param("i"), Param("j")>>, use)>>) :
                use \in AccessUsesIn(dims) } : dims \in AccessDims }

\* int g(int p) { return 0; }
\* int f(int a, int b) { while (c) { s } return a; }, where the condition or
\* a statement of the body may be g(), a call that lowering rejects
WhileConds == {Var("a"), Op2("LT", Var("a"), Uint(2)), Call("g", <<>>)}

WhileStmts ==
    { Incr("a"), Break, Continue, Call("g", <<Var("a")>>), Call("g", <<>>),
      While(Var("b"), Block(<<Incr("b")>>)),
      While(Var("b"), Block(<<Call("g", <<>>)>>)),
      While(Call("g", <<>>), Block(<<Incr("b")>>)) }

WhilePrograms ==
    { CompileUnit(<<FuncDef("int", "g", <<Param("p")>>, <<Return(Uint(0))>>),
                    FuncDef("int", "f", <<Param("a"), Param("b")>>,
                            <<While(c, Block(body)), Return(Var("a"))>>)>>) :
        c \in WhileConds,
        body \in {<<s>> : s \in WhileStmts}
                  \cup {<<s, Incr("a")>> : s \in WhileStmts} }

\* int g(int p) { return 0; }  int f(int a) { s; return a; }, where s is a
\* statement or a nested block that may hold g(), a call that lowering
\* rejects
ScopeStmts ==
    { Incr("a"), Call("g", <<Var("a")>>), Call("g", <<>>),
      Block(<<Incr("a")>>),
      Block(<<Call("g", <<>>)>>),
      Block(<<Decl(Var("b")), Block(<<Incr("a"), Call("g", <<>>)>>)>>),
      Block(<<Decl(Var("b")), Block(<<Incr("a")>>), Incr("a")>>),
      If(Var("a"), Block(<<Call("g", <<>>)>>)),
      If(Var("a"), Block(<<Incr("a")>>)) }

ScopePrograms ==
    { CompileUnit(<<FuncDef("int", "g", <<Param("p")>>, <<Return(Uint(0))>>),
                    FuncDef("int", "f", <<Param("a")>>, body \o <<Return(Var("a"))>>)>>) :
        body \in {<<s>> : s \in ScopeStmts}
                  \cup {<<s, t>> : s \in ScopeStmts, t \in ScopeStmts} }

\* int f(<parameters>) { return 0; } with parameters that are translated
\* and parameters whose handler fails: a name declared twice, an array
\* extent that is no literal, a missing type
GoodParams == {Param("a"), Param("b"), ArrayParam("c", <<2>>)}

BadParams ==
    { Op2("FUNC_FORMAL_PARAM", TypeN(""), Var("d")),
      Op2("FUNC_FORMAL_PARAM", TypeN("int"),
          Node("ARRAY_ACCESS", "", 0, "", <<Var("e"), Var("a")>>)) }

ParamLists ==
    {<<>>} \cup {<<x>> : x \in GoodParams \cup BadParams}
           \cup {<<x, y>> : x \in GoodParams, y \in GoodParams \cup BadParams}
           \cup {<<x, y>> : x \in BadParams, y \in GoodParams}
           \cup {<<x, y, x>> : x \in GoodParams, y \in GoodParams}

ParamPrograms ==
    { CompileUnit(<<FuncDef("int", "f", ps, <<Return(Uint(0))>>)>>) :
        ps \in ParamLists }

\* int f(int a<brackets>, int i) { return 0; } : one to three bracket pairs,
\* the first with or without a size
BracketLists ==
    UNION { { <<first>> \o [i \in 1..n |-> <<rest[i]>>] :
                first \in {<<>>} \cup {<<d>> : d \in 1..MaxDim},
                rest \in [1..n -> 1..MaxDim] } : n \in 0..2 }

BracketProgram(brackets) ==
    CompileUnit(<<FuncDef("int", "f", <<visitFuncParam("a", brackets), Param("i")>>,
                          <<Return(Uint(0))>>)>>)

BracketPrograms == {BracketProgram(b) : b \in BracketLists}

\* int f(int a, int b) { int r; r = 0; if (c) s [else t] return r; }
IfConds ==
    { Var("a"), Op2("LT", Var("a"), Var("b")), Op1("NOT", Var("a")),
      Op2("AND", Var("a"), Var("b")), Op2("OR", Var("a"), Var("b")),
      Op2("EQ", Var("a"), Uint(1)) }

IfThens ==
    { Assign(Var("r"), Uint(1)),
      Block(<<Assign(Var("r"), Uint(1)), Assign(Var("r"), Uint(2))>>),
      If(Var("b"), Assign(Var("r"), Uint(1))),
      IfElse(Var("b"), Assign(Var("r"), Uint(1)), Assign(Var("r"), Uint(2))),
      Return(Uint(1)) }

IfElses ==
    { Assign(Var("r"), Uint(3)),
      IfElse(Op2("GT", Var("b"), Uint(1)), Assign(Var("r"), Uint(3)),
             Return(Uint(2))),
      Return(Uint(2)) }

IfStmts ==
    {If(c, s) : c \in IfConds, s \in IfThens}
    \cup {IfElse(c, s, t) : c \in IfConds, s \in IfThens, t \in IfElses}

IfPrograms ==
    { CompileUnit(<<FuncDef("int", "f", <<Param("a"), Param("b")>>,
                            <<Decl(Var("r")), Assign(Var("r"), Uint(0)), s,
                              Return(Var("r"))>>)>>) : s \in IfStmts }

\* int f(int a, int b) { while (c) { body } return a; }
RunConds ==
    { Op2("LT", Var("a"), Uint(2)), Var("b"), Op2("LT", Var("a"), Var("b")),
      Op2("AND", Op2("LT", Var("a"), Uint(2)), Var("b")),
      Op1("NOT", Var("a")) }

RunBodies ==
    { <<Incr("a")>>,
      <<Incr("a"), Break>>,
      <<Incr("a"), If(Var("b"), Break)>>,
      <<Incr("a"), If(Var("b"), Continue), Assign(Var("b"), Uint(1))>>,
      <<While(Op2("LT", Var("b"), Uint(2)), Block(<<Incr("b")>>)), Incr("a")>>,
      <<While(Var("b"), Block(<<Break>>)), Incr("a"), Break>>,
      <<Incr("a"), If(Op2("EQ", Var("a"), Uint(2)), Return(Var("b")))>> }

RunPrograms ==
    { CompileUnit(<<FuncDef("int", "f", <<Param("a"), Param("b")>>,
                            <<While(c, Block(body)), Return(Var("a"))>>)>>) :
        c \in RunConds, body \in RunBodies }

\* int f(int a, int b) { s; return a; }: statements whose lowering creates
\* labels, expression statements among them
LabelStmts ==
    { Op1("NOT", Var("a")),
      Op1("NOT", Op2("LT", Var("a"), Var("b"))),
      Op1("NOT", Op1("NOT", Var("a"))),
      Op2("AND", Var("a"), Var("b")),
      Op2("OR", Var("a"), Op1("NOT", Var("b"))),
      Assign(Var("b"), Op1("NOT", Var("a"))),
      Assign(Var("b"), Op2("OR", Var("a"), Var("b"))),
      If(Op1("NOT", Op2("LT", Var("a"), Var("b"))), Incr("a")),
      If(Op2("AND", Var("a"), Op1("NOT", Var("b"))), Incr("a")),
      While(Op2("LT", Var("a"), Uint(2)), Block(<<Incr("a"), If(Var("b"), Break)>>)),
      While(Op1("NOT", Var("a")), Block(<<Incr("a")>>)) }

LabelPrograms ==
    { CompileUnit(<<FuncDef("int", "f", <<Param("a"), Param("b")>>,
                            <<s, Return(Var("a"))>>)>>) : s \in LabelStmts }

Programs ==
    BoolPrograms \cup FuncPrograms \cup ArrPrograms \cup LoopPrograms
    \cup CallPrograms \cup UndefPrograms \cup NotPrograms
    \cup RelPrograms \cup RoundTripPrograms \cup GlobalPrograms
    \cup RetPrograms \cup AssignPrograms \cup AccessPrograms
    \cup WhilePrograms \cup ScopePrograms \cup ParamPrograms
    \cup BracketPrograms \cup IfPrograms \cup RunPrograms \cup LabelPrograms

(***************************************************************************)
(* Execution of a function's InterCode, instruction by instruction, with   *)
(* the meaning the ARM32 selector gives each IR operator.                  *)
(***************************************************************************)
\* what a read of something nobody has written can yield: a stack slot never
\* assigned, a callee's result, a word of memory never stored
Havoc == {0, 1}

\* marks a slot nobody has written yet (no program of the model computes it)
Unwritten == 0 - 1000000

Abs(x) == IF x < 0 THEN 0 - x ELSE x

\* sdiv: quotient rounded towards zero
Sdiv(a, b) ==
    IF (a < 0) = (b < 0) THEN Abs(a) \div Abs(b) ELSE 0 - (Abs(a) \div Abs(b))

\* frame address of a declared array
ArrayBase(id) == 4096 * id

ValOf(m, e, id, h) ==
    IF m.heap[id].vk = "const" THEN m.heap[id].n
    ELSE IF e[id] = Unwritten THEN h ELSE e[id]

LabelPos(code, lbl) == {i \in 1..Len(code) : code[i] = lbl}

InitialEnv(m, f, args) ==
    [id \in 1..Len(m.heap) |->
        IF \E k \in 1..Len(m.funcs[f].params) : m.funcs[f].params[k] = id
        THEN args[CHOOSE k \in 1..Len(m.funcs[f].params) : m.funcs[f].params[k] = id]
        ELSE IF m.heap[id].vk \in {"local", "global"} /\ m.heap[id].isArray
        THEN ArrayBase(id)
        ELSE Unwritten]

\* translate_two_operator / translate_mod_int32 / translate_cmp on operand
\* contents a and b (the contents of the model stay far inside 32 bits)
BinaryResult(op, a, b) ==
    CASE op = "add" -> a + b
      [] op = "sub" -> a - b
      [] op = "mul" -> a * b
      [] op = "div" -> IF b = 0 THEN 0 ELSE Sdiv(a, b)
      [] op = "mod" -> IF b = 0 THEN a ELSE a - Sdiv(a, b) * b
      [] op = "cmp_eq" -> IF a = b THEN 1 ELSE 0
      [] op = "cmp_ne" -> IF a # b THEN 1 ELSE 0
      [] op = "cmp_lt" -> IF a < b THEN 1 ELSE 0
      [] op = "cmp_le" -> IF a <= b THEN 1 ELSE 0
      [] op = "cmp_gt" -> IF a > b THEN 1 ELSE 0
      [] op = "cmp_ge" -> IF a >= b THEN 1 ELSE 0

BinaryOps ==
    {"add", "sub", "mul", "div", "mod", "cmp_eq", "cmp_ne", "cmp_lt", "cmp_le",
     "cmp_gt", "cmp_ge"}

\* the effect of the instruction at position p: next position, contents,
\* whether the function has returned, and what went wrong
ExecInst(m, f, p, e, mm, h) ==
    LET code == m.funcs[f].code
        id == code[p]
        ins == m.heap[id]
        op == ins.op
        next == [pc |-> p + 1, env |-> e, done |-> FALSE, fault |-> "none"]
        jump(lbl) == IF Cardinality(LabelPos(code, lbl)) = 1
                     THEN [next EXCEPT !.pc = CHOOSE i \in LabelPos(code, lbl) : TRUE]
                     ELSE [next EXCEPT !.fault = "nolabel"]
    IN  CASE op \in {"entry", "label"} -> next
          [] op = "exit" ->
                [next EXCEPT !.pc = p, !.done = TRUE,
                             !.env = [e EXCEPT ![id] = IF ins.ops = <<>> THEN Unwritten
                                                       ELSE ValOf(m, e, ins.ops[1], h)]]
          [] op = "goto" -> jump(ins.lbls[1])
          [] op = "cond_goto" ->
                IF ValOf(m, e, ins.ops[1], h) # 0 THEN jump(ins.lbls[1])
                ELSE jump(ins.lbls[2])
          [] op = "move" ->
                [next EXCEPT !.env = [e EXCEPT ![ins.ops[1]] = ValOf(m, e, ins.ops[2], h)]]
          [] op = "neg" ->
                [next EXCEPT !.env = [e EXCEPT ![id] = 0 - ValOf(m, e, ins.ops[1], h)]]
          \* no translator is registered for deref: nothing is emitted, the
          \* slot of its result keeps what it held
          [] op = "deref" -> next
          [] op = "call" -> [next EXCEPT !.env = [e EXCEPT ![id] = h]]
          [] op \in BinaryOps ->
                LET a == ValOf(m, e, ins.ops[1], h)
                    b == ValOf(m, e, ins.ops[2], h)
                IN  [next EXCEPT !.env = [e EXCEPT ![id] = BinaryResult(op, a, b)],
                                 !.fault = IF op \in {"div", "mod"} /\ b = 0
                                           THEN "div0" ELSE "none"]

\* the instruction reads a value nobody has produced: a callee's result, or a
\* slot that was never stored to
ReadsHavoc(m, f, p, e, mm) ==
    LET ins == m.heap[m.funcs[f].code[p]]
        reads == IF ins.op = "move" THEN {ins.ops[2]}
                 ELSE {ins.ops[k] : k \in 1..Len(ins.ops)}
    IN  \/ ins.op = "call"
        \/ /\ ins.op # "deref"
           /\ \E id \in reads : m.heap[id].vk # "const" /\ e[id] = Unwritten

(***************************************************************************)
(* The state machine.                                                      *)
(***************************************************************************)
NoExec ==
    /\ fn = 0 /\ pc = 0 /\ env = <<>> /\ trace = <<>> /\ steps = 0
    /\ fault = "none" /\ mem = <<>>

NoISel ==
    /\ call = <<>> /\ asm = <<>> /\ allocated = {} /\ regValues = <<>> /\ apc = 0
    /\ regs = <<>> /\ stack = <<>> /\ frame = <<>> /\ ret = 0

Init ==
    /\ root \in Programs
    /\ phase = "parsed"
    /\ result = "none"
    /\ module = EmptyModule
    /\ NoExec
    /\ NoISel

\* IRGenerator::run().  After undefined behaviour (a null pointer was
\* dereferenced) the run may also have crashed.
RunGenerator ==
    /\ phase = "parsed"
    /\ \E r \in {Lowered(root)} :
          /\ module' = r.m
          /\ result' \in (IF r.m.ub THEN {"crash"} ELSE {})
                         \cup {IF r.ok THEN "true" ELSE "false"}
    /\ phase' = "lowered"
    /\ UNCHANGED <<root, fn, pc, env, trace, steps, fault, mem>>
    /\ UNCHANGED iselVars

\* a successfully translated function is entered with some arguments
StartExec ==
    /\ phase = "lowered"
    /\ result = "true"
    /\ ~module.ub
    /\ \E f \in 1..Len(module.funcs) :
       \E args \in [1..Len(module.funcs[f].params) -> Vals] :
          /\ fn' = f
          /\ env' = InitialEnv(module, f, args)
    /\ pc' = 1
    /\ phase' = "exec"
    /\ UNCHANGED <<root, result, module, trace, steps, fault, mem>>
    /\ UNCHANGED iselVars

Step ==
    /\ phase = "exec"
    /\ steps < MaxSteps
    /\ \E h \in Havoc :
          /\ ReadsHavoc(module, fn, pc, env, mem) \/ h = 0
          /\ LET x == ExecInst(module, fn, pc, env, mem, h)
             IN  /\ pc' = x.pc
                 /\ env' = x.env
                 /\ fault' = x.fault
                 /\ phase' = IF x.fault # "none" THEN "fault"
                             ELSE IF x.done THEN "exited" ELSE "exec"
    /\ trace' = Append(trace, module.funcs[fn].code[pc])
    /\ steps' = steps + 1
    /\ UNCHANGED <<root, result, module, fn, mem>>
    /\ UNCHANGED iselVars

Next == RunGenerator \/ StartExec \/ Step

Spec == Init /\ [][Next]_vars

InitBool == Init /\ root \in BoolPrograms

SpecBool == InitBool /\ [][Next]_vars

(***************************************************************************)
(* Navigation in the AST and in the generated code.                        *)
(***************************************************************************)
RECURSIVE NodeAt(_, _)
NodeAt(node, path) ==
    IF path = <<>> THEN node ELSE NodeAt(node.sons[Head(path)], Tail(path))

\* the paths of the nodes of type t below (and including) node
RECURSIVE PathsOf(_, _, _)
PathsOf(node, path, t) ==
    (IF node.node_type = t THEN {path} ELSE {})
    \cup UNION {PathsOf(node.sons[i], Append(path, i), t) : i \in 1..Len(node.sons)}

Min(S) == CHOOSE x \in S : \A y \in S : x <= y

Running == phase \in {"exec", "exited", "fault"}

CurCode == module.funcs[fn].code

\* positions in the running function's code of the instructions created
\* while the subtree at path was translated
PosUnder(path) ==
    {i \in 1..Len(CurCode) : IsPrefix(path, module.heap[CurCode[i]].node)}

IdsUnder(path) == {CurCode[i] : i \in PosUnder(path)}

\* the labels the handler of the node at path created itself
OwnLabels(path) ==
    {CurCode[i] : i \in {j \in 1..Len(CurCode) :
                            /\ module.heap[CurCode[j]].op = "label"
                            /\ module.heap[CurCode[j]].node = path}}

TargetsOf(id) == {module.heap[id].lbls[k] : k \in 1..Len(module.heap[id].lbls)}

\* labels outside the subtree at path that its instructions branch to
ExitsOf(path) == (UNION {TargetsOf(id) : id \in IdsUnder(path)}) \ IdsUnder(path)

Executed(ids) == \E k \in 1..Len(trace) : trace[k] \in ids

\* where control went each time it left the instructions ids
LeftTo(ids) ==
    {trace[k + 1] : k \in {j \in 1..(Len(trace) - 1) :
                               trace[j] \in ids /\ trace[j + 1] \notin ids}}

\* the value C gives an expression over the parameters (a division by zero,
\* which has none, is given 0: execution faults there)
ArgOf(name) ==
    LET f == module.funcs[fn]
        k == CHOOSE i \in 1..Len(f.params) : module.heap[f.params[i]].name = name
    IN  env[f.params[k]]

RECURSIVE ValueInC(_)
ValueInC(node) ==
    LET t == node.node_type
        x == ValueInC(node.sons[1])
        y == ValueInC(node.sons[2])
        bool(c) == IF c THEN 1 ELSE 0
    IN  CASE t = "LEAF_LITERAL_UINT" -> node.integer_val
          [] t = "LEAF_VAR_ID" -> ArgOf(node.name)
          [] t = "ADD" -> x + y
          [] t = "SUB" -> x - y
          [] t = "MUL" -> x * y
          [] t = "DIV" -> IF y = 0 THEN 0 ELSE Sdiv(x, y)
          [] t = "NOT" -> bool(x = 0)
          [] t = "AND" -> IF x = 0 THEN 0 ELSE bool(y # 0)
          [] t = "OR" -> IF x # 0 THEN 1 ELSE bool(y # 0)
          [] t = "EQ" -> bool(x = y)
          [] t = "NE" -> bool(x # y)
          [] t = "LT" -> bool(x < y)
          [] t = "LE" -> bool(x <= y)
          [] t = "GT" -> bool(x > y)
          [] t = "GE" -> bool(x >= y)

\* the code of the two-operand node at path is: the code of its left
\* operand, one label r of its own, the code of its right operand
Layout(path, r) ==
    LET A == PosUnder(path \o <<1>>)
        B == PosUnder(path \o <<2>>)
    IN  /\ A # {} /\ B # {}
        /\ A = Min(A)..Max(A)
        /\ B = Min(B)..Max(B)
        /\ CurCode[Max(A) + 1] = r
        /\ Min(B) = Max(A) + 2

(***************************************************************************)
(* C1.  In a condition `a && b`, the code of a branches to the inherited   *)
(* false label when a is zero and to a fresh label, placed immediately     *)
(* before the code of b, when a is non-zero; the code of b branches only   *)
(* to the inherited true and false labels.  So no instruction of b is      *)
(* executed in a run where a evaluated to zero.                            *)
(***************************************************************************)
AndShortCircuit(path) ==
    LET a == NodeAt(root, path \o <<1>>)
        A == IdsUnder(path \o <<1>>)
        B == IdsUnder(path \o <<2>>)
        r == CHOOSE l \in OwnLabels(path) : TRUE
        outA == ExitsOf(path \o <<1>>)
        outB == ExitsOf(path \o <<2>>)
    IN  /\ Cardinality(OwnLabels(path)) = 1
        /\ Layout(path, r)
        /\ r \in outA /\ Cardinality(outA) = 2
        /\ outA \ {r} \subseteq outB
        /\ Cardinality(outB) <= 2 /\ r \notin outB
        /\ \A id \in Range(CurCode) \ A : r \notin TargetsOf(id)
        /\ Executed(B) => ValueInC(a) # 0
        /\ LeftTo(A) \subseteq (IF ValueInC(a) # 0 THEN {r} ELSE outA \ {r})

C1_AndShortCircuit ==
    (Running /\ root \in BoolPrograms)
        => \A path \in PathsOf(root, <<>>, "AND") : AndShortCircuit(path)

\* a run that returned, in which the left operand of some && was zero and
\* evaluated, and the right operand was skipped
C1_Witness ==
    /\ phase = "exited" /\ root \in BoolPrograms
    /\ \E path \in PathsOf(root, <<>>, "AND") :
          /\ Executed(IdsUnder(path \o <<1>>))
          /\ ValueInC(NodeAt(root, path \o <<1>>)) = 0
          /\ ~Executed(IdsUnder(path \o <<2>>))

(***************************************************************************)
(* C2.  In a condition `a || b`, the code of a branches to the inherited   *)
(* true label when a is non-zero and to a fresh label, placed immediately  *)
(* before the code of b, when a is zero.  So no instruction of b is        *)
(* executed in a run where a evaluated to non-zero: for                    *)
(* `a == 0 || 1/a > 0` with a = 0 the division is never executed.          *)
(***************************************************************************)
OrShortCircuit(path) ==
    LET a == NodeAt(root, path \o <<1>>)
        A == IdsUnder(path \o <<1>>)
        B == IdsUnder(path \o <<2>>)
        r == CHOOSE l \in OwnLabels(path) : TRUE
        outA == ExitsOf(path \o <<1>>)
        outB == ExitsOf(path \o <<2>>)
    IN  /\ Cardinality(OwnLabels(path)) = 1
        /\ Layout(path, r)
        /\ r \in outA /\ Cardinality(outA) = 2
        /\ outA \ {r} \subseteq outB
        /\ Cardinality(outB) <= 2 /\ r \notin outB
        /\ \A id \in Range(CurCode) \ A : r \notin TargetsOf(id)
        /\ Executed(B) => ValueInC(a) = 0
        /\ LeftTo(A) \subseteq (IF ValueInC(a) = 0 THEN {r} ELSE outA \ {r})

DivGuarded == Op2("OR", Op2("EQ", Var("a"), Uint(0)),
                  Op2("GT", Op2("DIV", Uint(1), Var("a")), Uint(0)))

C2_OrShortCircuit ==
    (Running /\ root \in BoolPrograms)
        => /\ \A path \in PathsOf(root, <<>>, "OR") : OrShortCircuit(path)
           /\ (root = BoolProgram(DivGuarded) /\ ArgOf("a") = 0)
                 => /\ fault = "none"
                    /\ \A k \in 1..Len(trace) : module.heap[trace[k]].op # "div"

\* `a == 0 || 1/a > 0` was run with a = 0 and the run took the true branch
C2_Witness ==
    /\ phase = "exited" /\ root = BoolProgram(DivGuarded)
    /\ ArgOf("a") = 0
    /\ Executed(IdsUnder(<<1, 4, 1, 1, 1>>))
    /\ ~Executed(IdsUnder(<<1, 4, 1, 1, 2>>))
    /\ env[Last(trace)] = 1


InitFunc == Init /\ root \in FuncPrograms

SpecFunc == InitFunc /\ [][Next]_vars

Translated == phase # "parsed" /\ result = "true"

\* the function a node of the AST belongs to
FuncOf(path) == findFunction(module, NodeAt(root, <<path[1]>>).sons[2].name)

OpAt(code, k) == module.heap[code[k]].op

(***************************************************************************)
(* C3.  The instruction list of every successfully lowered function holds  *)
(* exactly one Exit, which is its last instruction, and exactly one        *)
(* occurrence of the function's exit label, immediately before the Exit;   *)
(* every `return` statement of the body contributes a Goto whose target    *)
(* is that exit label (and a run that executes it goes to the exit label). *)
(***************************************************************************)
ExitUnique(f) ==
    LET code == module.funcs[f].code
        n == Len(code)
    IN  /\ n >= 3
        /\ {k \in 1..n : OpAt(code, k) = "exit"} = {n}
        /\ {k \in 1..n : code[k] = module.funcs[f].exitLabel} = {n - 1}
        /\ OpAt(code, n - 1) = "label"

ReturnGotos(path) ==
    LET code == module.funcs[FuncOf(path)].code
    IN  {k \in 1..Len(code) :
            OpAt(code, k) = "goto" /\ module.heap[code[k]].node = path}

ReturnLeaves(path) ==
    LET f == module.funcs[FuncOf(path)]
        gotos == ReturnGotos(path)
    IN  /\ Cardinality(gotos) = 1
        /\ \A k \in gotos : module.heap[f.code[k]].lbls = <<f.exitLabel>>

C3_ExitUnique ==
    (Translated /\ root \in FuncPrograms)
        => /\ \A f \in 1..Len(module.funcs) : ExitUnique(f)
           /\ \A path \in PathsOf(root, <<>>, "RETURN") : ReturnLeaves(path)
           /\ \A k \in 1..(Len(trace) - 1) :
                 (/\ module.heap[trace[k]].op = "goto"
                  /\ module.heap[trace[k]].node \in PathsOf(root, <<>>, "RETURN"))
                     => trace[k + 1] = module.funcs[fn].exitLabel

\* a function with two `return` statements was lowered and run, and the run
\* left through one of them
C3_Witness ==
    /\ phase = "exited" /\ root \in FuncPrograms
    /\ Cardinality(PathsOf(root, <<>>, "RETURN")) >= 2
    /\ \E k \in 1..Len(trace) :
          /\ module.heap[trace[k]].op = "goto"
          /\ module.heap[trace[k]].node \in PathsOf(root, <<>>, "RETURN")

(***************************************************************************)
(* C4.  In a function named main with a non-void return type, a            *)
(* Move(retSlot, 0) sits right after Entry, before the moves that bind the *)
(* parameters and before the body; so a run that reaches Exit without      *)
(* having executed a `return` with an expression returns 0.                *)
(***************************************************************************)
IsMain(f) == module.funcs[f].name = "main" /\ module.funcs[f].returnType # "void"

MainPrologue(f) ==
    LET code == module.funcs[f].code
        init == module.heap[code[2]]
    IN  /\ OpAt(code, 1) = "entry"
        /\ init.op = "move"
        /\ init.ops[1] = module.funcs[f].returnValue
        /\ module.heap[init.ops[2]].vk = "const" /\ module.heap[init.ops[2]].n = 0
        /\ \A k \in 1..Len(code) :
              (/\ OpAt(code, k) = "move"
               /\ module.heap[module.heap[code[k]].ops[2]].vk = "param") => k > 2

\* the run executed the Move of a `return` with an expression
ReturnedValue ==
    \E k \in 1..Len(trace) :
        /\ module.heap[trace[k]].op = "move"
        /\ module.heap[trace[k]].node \in PathsOf(root, <<>>, "RETURN")

C4_MainReturnsZero ==
    (Translated /\ root \in FuncPrograms)
        => /\ \A f \in 1..Len(module.funcs) : IsMain(f) => MainPrologue(f)
           /\ (phase = "exited" /\ IsMain(fn) /\ ~ReturnedValue)
                 => /\ module.heap[Last(trace)].ops = <<module.funcs[fn].returnValue>>
                    /\ env[module.funcs[fn].returnValue] = 0
                    /\ env[Last(trace)] = 0

\* main(int a, int b) ran through a loop and a `return;` or the end of its
\* body, never through a `return` with an expression
C4_Witness ==
    /\ phase = "exited" /\ root \in FuncPrograms /\ IsMain(fn)
    /\ Len(module.funcs[fn].params) = 2
    /\ ~ReturnedValue
    /\ Len(trace) > 6


InitArr == Init /\ root \in ArrPrograms

SpecArr == InitArr /\ [][Next]_vars

(***************************************************************************)
(* C5.  For an array of dimensions d_0..d_{n-1} accessed with indices      *)
(* i_0..i_{k-1}, k <= n, the address ir_array_access computes is           *)
(*   base + 4 * (sum over j < k of i_j * product of d_m for j < m < n),    *)
(* for every index value and extent in the bounded range; a multiplication *)
(* by a product equal to 1 is not emitted.                                 *)
(***************************************************************************)
RECURSIVE ProductBehind(_, _)
ProductBehind(dims, j) ==
    IF j >= Len(dims) THEN 1 ELSE dims[j + 1] * ProductBehind(dims, j + 1)

RECURSIVE LinearOffset(_, _, _)
LinearOffset(dims, idx, j) ==
    IF j > Len(idx) THEN 0
    ELSE idx[j] * ProductBehind(dims, j) + LinearOffset(dims, idx, j + 1)

\* the array accesses of function bodies (not the declarators of parameters)
BodyAccesses ==
    {path \in PathsOf(root, <<>>, "ARRAY_ACCESS") : path[2] = 4}

\* the dimensions the program declares for `a`
DeclaredDims(arrayVar) ==
    LET decls == PathsOf(root, <<>>, "ARRAY_DECL")
    IN  IF decls = {} THEN module.heap[arrayVar].dims
        ELSE LET d == NodeAt(root, CHOOSE q \in decls : TRUE)
             IN  [i \in 1..(Len(d.sons) - 1) |-> d.sons[i + 1].integer_val]

AddressOf(path) ==
    CHOOSE id \in 1..Len(module.heap) :
        /\ module.heap[id].node = path
        /\ module.heap[id].op = "add" /\ module.heap[id].ty = "ptr"

Linearized(path) ==
    LET node == NodeAt(root, path)
        addr == AddressOf(path)
        arrayVar == module.heap[addr].ops[1]
        dims == DeclaredDims(arrayVar)
        idx == [j \in 1..(Len(node.sons) - 1) |-> ValueInC(node.sons[j + 1])]
        muls == {id \in IdsUnder(path) :
                    module.heap[id].node = path /\ module.heap[id].op = "mul"}
    IN  Last(trace) = addr
           => /\ env[addr] = env[arrayVar] + 4 * LinearOffset(dims, idx, 1)
              /\ Cardinality(muls)
                    = 1 + Cardinality({j \in 1..Len(idx) : ProductBehind(dims, j) # 1})

C5_ArrayLinearization ==
    (Running /\ root \in ArrPrograms /\ trace # <<>>)
        => \A path \in BodyAccesses : Linearized(path)

\* the address of a[i][j][i] in an array whose last extent is 1 and whose
\* middle extent is not has just been computed, with i = 2 and j = 1
C5_Witness ==
    /\ Running /\ root \in ArrPrograms /\ trace # <<>>
    /\ \E path \in BodyAccesses :
          /\ Last(trace) = AddressOf(path)
          /\ Len(NodeAt(root, path).sons) = 4
          /\ NodeAt(root, path).sons[4] = Var("i")
          /\ LET dims == module.heap[module.heap[AddressOf(path)].ops[1]].dims
             IN  Len(dims) = 3 /\ dims[2] = 2 /\ dims[3] = 1
    /\ ArgOf("i") = 2 /\ ArgOf("j") = 1


(***************************************************************************)
(* The ARM32 instruction selector translating a function call, and the     *)
(* machine running the code it emits.                                      *)
(*                                                                         *)
(* A Value is seen through getRegId() (-1: not in a register) and          *)
(* getMemoryAddr() (base register, byte offset).  The selector's state is  *)
(* sel = [asm, allocated, regValues, realArgCount]: the ILoc code emitted   *)
(* so far, the registers the SimpleRegisterAllocator holds, the values it  *)
(* bound them to, and the ARG counter.                                     *)
(***************************************************************************)
ARM32_TMP_REG_NO == 10

ARM32_FP_REG_NO == 11

ARM32_SP_REG_NO == 13

MaxUsableReg == 7

NoReg == 0 - 1

ConstValue(v) ==
    [kind |-> "const", regId |-> NoReg, base |-> NoReg, off |-> 0, val |-> v]

MemVariable(base, off) ==
    [kind |-> "mem", regId |-> NoReg, base |-> base, off |-> off, val |-> 0]

\* PlatformArm32::intRegVal[k]
intRegVal(k) ==
    [kind |-> "reg", regId |-> k, base |-> NoReg, off |-> 0, val |-> 0]

ArmInst(op, rd, rs, base, off, imm, name) ==
    [op |-> op, rd |-> rd, rs |-> rs, base |-> base, off |-> off, imm |-> imm,
     name |-> name]

Emit(sel, i) == [sel EXCEPT !.asm = Append(@, i)]

\* ILoc::load_var: the value of src is brought into register rd
load_var(sel, rd, src) ==
    CASE src.kind = "const" ->
            Emit(sel, ArmInst("movi", rd, NoReg, NoReg, 0, src.val, ""))
      [] src.kind = "reg" ->
            Emit(sel, ArmInst("mov", rd, src.regId, NoReg, 0, 0, ""))
      [] OTHER ->
            Emit(sel, ArmInst("ldr", rd, NoReg, src.base, src.off, 0, ""))

\* ILoc::store_var: register rs is written to dest, a register or a word of
\* memory (tmp serves offsets the encoding cannot hold; none arise here)
store_var(sel, rs, dest, tmp) ==
    IF dest.regId # NoReg
    THEN Emit(sel, ArmInst("mov", dest.regId, rs, NoReg, 0, 0, ""))
    ELSE Emit(sel, ArmInst("str", NoReg, rs, dest.base, dest.off, 0, ""))

\* ILoc::call_fun
call_fun(sel, name) == Emit(sel, ArmInst("bl", NoReg, NoReg, NoReg, 0, 0, name))

\* SimpleRegisterAllocator::Allocate(): the lowest register nobody holds
FreeReg(sel) ==
    CHOOSE r \in 0..MaxUsableReg :
        /\ r \notin sel.allocated
        /\ \A q \in 0..MaxUsableReg : q \notin sel.allocated => r <= q

\* SimpleRegisterAllocator::Allocate(no): the register is pinned; a value
\* bound to it loses it
Allocate(sel, no) ==
    [sel EXCEPT !.allocated = @ \cup {no},
                !.regValues = SelectSeq(@, LAMBDA e : e[2] # no)]

\* SimpleRegisterAllocator::free(no)
free(sel, no) ==
    [sel EXCEPT !.allocated = @ \ {no},
                !.regValues = SelectSeq(@, LAMBDA e : e[2] # no)]

\* Value::getLoadRegId: the register Allocate(var) bound to var, or -1
getLoadRegId(sel, var) ==
    IF \E k \in 1..Len(sel.regValues) : sel.regValues[k][1] = var
    THEN sel.regValues[CHOOSE k \in 1..Len(sel.regValues) :
                           sel.regValues[k][1] = var][2]
    ELSE NoReg

\* SimpleRegisterAllocator::Allocate(var): an unused register is bound to
\* var; a value that is bound already keeps its register
AllocateValue(sel, var) ==
    IF getLoadRegId(sel, var) # NoReg THEN sel
    ELSE [sel EXCEPT !.allocated = @ \cup {FreeReg(sel)},
                     !.regValues = Append(@, <<var, FreeReg(sel)>>)]

\* SimpleRegisterAllocator::free(var): the register bound to var is released
freeValue(sel, var) ==
    IF getLoadRegId(sel, var) = NoReg THEN sel
    ELSE [sel EXCEPT !.allocated = @ \ {getLoadRegId(sel, var)},
                     !.regValues = SelectSeq(@, LAMBDA e : e[1] # var)]

translate_assign(sel, dest, arg1) ==
    IF arg1.regId # NoReg
    THEN store_var(sel, arg1.regId, dest, ARM32_TMP_REG_NO)
    ELSE IF dest.regId # NoReg
    THEN load_var(sel, dest.regId, arg1)
    ELSE
    Bind([temp_regno \in {FreeReg(sel)} |->
        free(store_var(load_var(Allocate(sel, temp_regno), temp_regno, arg1),
                       temp_regno, dest, ARM32_TMP_REG_NO),
             temp_regno)])

\* the first loop of translate_call: operand k (k >= 4) goes to a new memory
\* variable at [sp + esp]
RECURSIVE StackArgsLoop(_, _, _, _)
StackArgsLoop(sel, callInst, k, esp) ==
    IF k >= Len(callInst.args) THEN sel
    ELSE
    Bind([s1 \in {
              translate_assign(sel, MemVariable(ARM32_SP_REG_NO, esp),
                               callInst.args[k + 1])
    } |->
        StackArgsLoop(s1, callInst, k + 1, esp + 4)])

\* the second loop of translate_call: operand k (k < 4) goes to intRegVal[k]
RECURSIVE RegArgsLoop(_, _, _)
RegArgsLoop(sel, callInst, k) ==
    IF ~(k < Len(callInst.args) /\ k < 4) THEN sel
    ELSE
    Bind([s1 \in {translate_assign(sel, intRegVal(k), callInst.args[k + 1])} |->
        RegArgsLoop(s1, callInst, k + 1)])

\* a translate_call that passes no argument on the stack
translate_call_registers_only(sel, callInst) ==
    LET operandNum == Len(callInst.args)
    IN
    Bind([s1 \in {
              IF operandNum # 0
              THEN RegArgsLoop(
                       Allocate(Allocate(Allocate(Allocate(sel, 0), 1), 2), 3),
                       callInst, 0)
              ELSE sel
    } |->
    Bind([s2 \in {call_fun(s1, callInst.name)} |->
    Bind([s3 \in {
              IF operandNum # 0
              THEN free(free(free(free(s2, 0), 1), 2), 3)
              ELSE s2
    } |->
    Bind([s4 \in {
              IF callInst.hasResult
              THEN translate_assign(s3, callInst.result, intRegVal(0))
              ELSE s3
    } |->
        [s4 EXCEPT !.realArgCount = 0]])])])])

translate_call(sel, callInst) ==
    LET operandNum == Len(callInst.args)
    IN
    Bind([s1 \in {
              IF operandNum # 0
              THEN RegArgsLoop(
                       StackArgsLoop(
                           Allocate(Allocate(Allocate(Allocate(sel, 0), 1), 2), 3),
                           callInst, 4, 0),
                       callInst, 0)
              ELSE sel
    } |->
    Bind([s2 \in {call_fun(s1, callInst.name)} |->
    Bind([s3 \in {
              IF operandNum # 0
              THEN free(free(free(free(s2, 0), 1), 2), 3)
              ELSE s2
    } |->
    Bind([s4 \in {
              IF callInst.hasResult
              THEN translate_assign(s3, callInst.result, intRegVal(0))
              ELSE s3
    } |->
        [s4 EXCEPT !.realArgCount = 0]])])])])

\* the register an operand is read from: its own, or the one it is loaded into
Loaded(sel, var) ==
    IF var.regId # NoReg THEN sel
    ELSE
    Bind([s1 \in {AllocateValue(sel, var)} |->
        load_var(s1, getLoadRegId(s1, var), var)])

RegOf(sel, var) == IF var.regId # NoReg THEN var.regId ELSE getLoadRegId(sel, var)

\* the register the result is computed in
Reserved(sel, var) == IF var.regId # NoReg THEN sel ELSE AllocateValue(sel, var)

\* the result goes back to its variable when that is not a register
StoredBack(sel, var) ==
    IF var.regId # NoReg THEN sel
    ELSE store_var(sel, getLoadRegId(sel, var), var, ARM32_TMP_REG_NO)

translate_one_operator(sel, inst, operator_name) ==
    LET arg1 == inst.args[1]
    IN
    Bind([s1 \in {Reserved(Loaded(sel, arg1), inst.result)} |->
    Bind([s2 \in {Emit(s1, ArmInst(operator_name, RegOf(s1, inst.result),
                                   RegOf(s1, arg1), NoReg, 0, 0, ""))} |->
        freeValue(freeValue(StoredBack(s2, inst.result), arg1), inst.result)])])

translate_two_operator(sel, inst, operator_name) ==
    LET arg1 == inst.args[1]
        arg2 == inst.args[2]
    IN
    Bind([s1 \in {Reserved(Loaded(Loaded(sel, arg1), arg2), inst.result)} |->
    Bind([s2 \in {Emit(s1, ArmInst(operator_name, RegOf(s1, inst.result),
                                   RegOf(s1, arg1), RegOf(s1, arg2), 0, 0, ""))} |->
        freeValue(freeValue(freeValue(StoredBack(s2, inst.result), arg1), arg2),
                  inst.result)])])

translate_mod_int32(sel, inst) ==
    LET arg1 == inst.args[1]
        arg2 == inst.args[2]
    IN
    Bind([s1 \in {Reserved(Loaded(Loaded(sel, arg1), arg2), inst.result)} |->
    Bind([temp_reg_no \in {FreeReg(s1)} |->
    Bind([s2 \in {Emit(Emit(Emit(Allocate(s1, temp_reg_no),
              ArmInst("sdiv", temp_reg_no, RegOf(s1, arg1), RegOf(s1, arg2), 0, 0, "")),
              ArmInst("mul", temp_reg_no, temp_reg_no, RegOf(s1, arg2), 0, 0, "")),
              ArmInst("sub", RegOf(s1, inst.result), RegOf(s1, arg1), temp_reg_no,
                      0, 0, ""))} |->
        free(freeValue(freeValue(freeValue(StoredBack(s2, inst.result), arg1), arg2),
                       inst.result),
             temp_reg_no)])])])

\* the condition code of a comparison
CondOf(op) ==
    CASE op = "cmp_eq" -> "eq" [] op = "cmp_ne" -> "ne" [] op = "cmp_lt" -> "lt"
      [] op = "cmp_le" -> "le" [] op = "cmp_gt" -> "gt" [] op = "cmp_ge" -> "ge"
      [] OTHER -> ""

translate_cmp(sel, inst) ==
    LET arg1 == inst.args[1]
        arg2 == inst.args[2]
    IN
    Bind([s1 \in {Reserved(Loaded(Loaded(sel, arg1), arg2), inst.result)} |->
    Bind([s2 \in {Emit(s1, ArmInst("cmp", NoReg, RegOf(s1, arg1), RegOf(s1, arg2),
                                   0, 0, ""))} |->
        IF CondOf(inst.op) = "" THEN s2
        ELSE
        Bind([s3 \in {Emit(Emit(s2,
                  ArmInst("movi", RegOf(s1, inst.result), NoReg, NoReg, 0, 0, "")),
                  ArmInst("mov" \o CondOf(inst.op), RegOf(s1, inst.result), NoReg,
                          NoReg, 0, 1, ""))} |->
            freeValue(freeValue(freeValue(StoredBack(s3, inst.result), arg1), arg2),
                      inst.result)])])])

\* a translate_cond_goto that keeps the register of the condition
translate_cond_goto_no_free(sel, inst) ==
    LET condVar == inst.args[1]
    IN
    Bind([s1 \in {Loaded(sel, condVar)} |->
        Emit(Emit(Emit(s1,
            ArmInst("cmpi", NoReg, RegOf(s1, condVar), NoReg, 0, 0, "")),
            ArmInst("bne", NoReg, NoReg, NoReg, 0, 0, inst.name)),
            ArmInst("b", NoReg, NoReg, NoReg, 0, 0, inst.falseName))])

translate_cond_goto(sel, inst) ==
    LET condVar == inst.args[1]
    IN
    Bind([s1 \in {Loaded(sel, condVar)} |->
        freeValue(Emit(Emit(Emit(s1,
            ArmInst("cmpi", NoReg, RegOf(s1, condVar), NoReg, 0, 0, "")),
            ArmInst("bne", NoReg, NoReg, NoReg, 0, 0, inst.name)),
            ArmInst("b", NoReg, NoReg, NoReg, 0, 0, inst.falseName)),
            condVar)])

\* the operators InstSelectorArm32::InstSelectorArm32 registers a handler for
translator_handlers ==
    {"entry", "exit", "label", "goto", "move", "add", "sub", "neg", "mul", "div",
     "mod", "cmp_eq", "cmp_ne", "cmp_lt", "cmp_le", "cmp_gt", "cmp_ge",
     "cond_goto", "call", "arg"}

\* InstSelectorArm32::translate: the handler registered for the operator runs;
\* without one, "Operator not support" is printed and nothing is emitted
translate(sel, inst) ==
    IF inst.op \notin translator_handlers THEN sel
    ELSE
    CASE inst.op = "move" -> translate_assign(sel, inst.args[1], inst.args[2])
      [] inst.op = "neg" -> translate_one_operator(sel, inst, "neg")
      [] inst.op \in {"add", "sub", "mul"} -> translate_two_operator(sel, inst, inst.op)
      [] inst.op = "div" -> translate_two_operator(sel, inst, "sdiv")
      [] inst.op = "mod" -> translate_mod_int32(sel, inst)
      [] CondOf(inst.op) # "" -> translate_cmp(sel, inst)
      [] inst.op = "cond_goto" -> translate_cond_goto(sel, inst)
      [] inst.op = "call" ->
            translate_call([sel EXCEPT !.realArgCount = Len(inst.args)], inst)
      [] OTHER -> sel

\* --- the calls translated and the frame they are translated in ---------

\* the word of the caller's frame that holds local k
LocalOff(k) == 0 - 4 * (k + 1)

\* the value operand k has when the call is reached
ArgValue(k) == k + 1

\* operand k is a constant or a variable of the caller's frame
ArgOperands(k) == {ConstValue(ArgValue(k)), MemVariable(ARM32_FP_REG_NO, LocalOff(k))}

\* the operand lists of length n
RECURSIVE OperandLists(_)
OperandLists(n) ==
    IF n = 0 THEN {<<>>}
    ELSE {Append(a, x) : a \in OperandLists(n - 1), x \in ArgOperands(n - 1)}

\* the calls translated: `g(...)` with up to MaxCallArgs operands, with and
\* without a result, whose variable is a local of the caller's frame
TranslatedCalls ==
    UNION {
        {[name |-> "g", args |-> a, hasResult |-> h,
          result |-> MemVariable(ARM32_FP_REG_NO, LocalOff(n))] :
            a \in OperandLists(n), h \in BOOLEAN}
        : n \in 0..MaxCallArgs}

InitSel ==
    /\ root = CompileUnit(<<>>)
    /\ phase = "isel"
    /\ result = "none"
    /\ module = EmptyModule
    /\ NoExec
    /\ call \in TranslatedCalls
    /\ asm = <<>>
    /\ allocated = {}
    /\ regValues = <<>>
    /\ apc = 0
    /\ regs = [r \in 0..15 |-> Unwritten]
    /\ stack = [o \in {4 * j : j \in 0..MaxCallArgs} |-> Unwritten]
    /\ frame = [o \in {LocalOff(k) : k \in 0..(MaxCallArgs + 1)} |->
                   IF o = LocalOff(Len(call.args)) THEN Unwritten
                   ELSE ArgValue((0 - o) \div 4 - 1)]
    /\ ret = Unwritten

\* InstSelectorArm32::translate_call on the FuncCallInstruction `call`, after
\* as many ARG instructions as the call has operands
TranslateCall ==
    /\ phase = "isel"
    /\ \E s \in {translate_call([asm |-> <<>>, allocated |-> {},
                                 regValues |-> <<>>,
                                 realArgCount |-> Len(call.args)], call)} :
          /\ asm' = s.asm
          /\ allocated' = s.allocated
          /\ regValues' = s.regValues
    /\ apc' = 1
    /\ phase' = "iselrun"
    /\ UNCHANGED <<root, result, module, call, regs, stack, frame, ret>>
    /\ UNCHANGED execVars

Word(base, off) == IF base = ARM32_SP_REG_NO THEN stack[off] ELSE frame[off]

AfterInst == IF apc = Len(asm) THEN "iseldone" ELSE "iselrun"

\* the machine executes one emitted move, load or store
RunInst ==
    /\ phase = "iselrun"
    /\ asm[apc].op # "bl"
    /\ regs' = CASE asm[apc].op = "movi" -> [regs EXCEPT ![asm[apc].rd] = asm[apc].imm]
                 [] asm[apc].op = "mov" ->
                        [regs EXCEPT ![asm[apc].rd] = regs[asm[apc].rs]]
                 [] asm[apc].op = "ldr" ->
                        [regs EXCEPT ![asm[apc].rd] =
                                         Word(asm[apc].base, asm[apc].off)]
                 [] OTHER -> regs
    /\ stack' = IF asm[apc].op = "str" /\ asm[apc].base = ARM32_SP_REG_NO
                THEN [stack EXCEPT ![asm[apc].off] = regs[asm[apc].rs]]
                ELSE stack
    /\ frame' = IF asm[apc].op = "str" /\ asm[apc].base = ARM32_FP_REG_NO
                THEN [frame EXCEPT ![asm[apc].off] = regs[asm[apc].rs]]
                ELSE frame
    /\ apc' = apc + 1
    /\ phase' = AfterInst
    /\ UNCHANGED <<root, result, module, call, asm, allocated, regValues, ret>>
    /\ UNCHANGED execVars

\* `bl`: the callee runs; it returns some value in R0 and leaves nothing
\* known in R1..R3
RunCallee ==
    /\ phase = "iselrun"
    /\ asm[apc].op = "bl"
    /\ \E v \in Vals :
          /\ ret' = v
          /\ regs' = [r \in 0..15 |->
                         IF r = 0 THEN v ELSE IF r < 4 THEN Unwritten ELSE regs[r]]
    /\ apc' = apc + 1
    /\ phase' = AfterInst
    /\ UNCHANGED <<root, result, module, call, asm, allocated, regValues, stack,
                   frame>>
    /\ UNCHANGED execVars

NextSel == TranslateCall \/ RunInst \/ RunCallee

SpecSel == InitSel /\ [][NextSel]_vars

\* the machine is about to execute the call's `bl`
AtCall == phase = "iselrun" /\ asm[apc].op = "bl"

\* operand k is where the callee looks for it
ArgPlaced(k) ==
    IF k < 4 THEN regs[k] = ArgValue(k) ELSE stack[4 * (k - 4)] = ArgValue(k)

(***************************************************************************)
(* C6.  For a call with n arguments, 0 <= n <= MaxCallArgs, the code       *)
(* translate_call emits holds exactly one `bl`, of the callee; when the    *)
(* machine reaches it, argument k is in register Rk for every k < 4 and in *)
(* the word at [sp + 4*(k-4)] for every k >= 4; and when the call has a    *)
(* result, once the emitted code has run the result variable holds what    *)
(* the callee returned in R0.                                              *)
(***************************************************************************)
C6_CallMarshalling ==
    /\ phase \in {"iselrun", "iseldone"} =>
          /\ Cardinality({p \in 1..Len(asm) : asm[p].op = "bl"}) = 1
          /\ \A p \in 1..Len(asm) : asm[p].op = "bl" => asm[p].name = call.name
    /\ AtCall => \A k \in 0..(Len(call.args) - 1) : ArgPlaced(k)
    /\ (phase = "iseldone" /\ call.hasResult) =>
          /\ ret # Unwritten
          /\ Word(call.result.base, call.result.off) = ret

\* a call of eight arguments, constants and variables among those passed in
\* registers and among those passed on the stack, has returned 2, which is
\* now in the result variable; the stack still holds arguments 4..7
C6_Witness ==
    /\ phase = "iseldone"
    /\ Len(call.args) = 8
    /\ call.hasResult
    /\ call.args[1].kind = "mem" /\ call.args[2].kind = "const"
    /\ call.args[5].kind = "const" /\ call.args[8].kind = "mem"
    /\ \A k \in 4..7 : stack[4 * (k - 4)] = ArgValue(k)
    /\ ret = 2
    /\ frame[call.result.off] = 2


InitLoop == Init /\ root \in LoopPrograms

SpecLoop == InitLoop /\ [][Next]_vars

\* the while loops a node is inside of: the WHILE nodes whose body holds it
LoopsAround(path) ==
    {q \in PathsOf(root, <<>>, "WHILE") : IsPrefix(q \o <<2>>, path)}

\* the innermost of them
InnermostLoop(path) ==
    CHOOSE q \in LoopsAround(path) : \A r \in LoopsAround(path) : Len(r) <= Len(q)

Jumps == PathsOf(root, <<>>, "BREAK") \cup PathsOf(root, <<>>, "CONTINUE")

CodeOfRoot == module.funcs[1].code

PosIn(code, path) ==
    {i \in 1..Len(code) : IsPrefix(path, module.heap[code[i]].node)}

\* the label in front of the condition code of the loop at path
EntryLabel(path) == CodeOfRoot[Min(PosIn(CodeOfRoot, path))]

\* the label behind the loop at path
ExitLabel(path) == CodeOfRoot[Max(PosIn(CodeOfRoot, path))]

GotosOf(path) ==
    {id \in 1..Len(module.heap) :
        module.heap[id].op = "goto" /\ module.heap[id].node = path}

(***************************************************************************)
(* C7.  Whatever the nesting of while loops, the Goto of a `break` targets *)
(* the exit label of the innermost enclosing while and the Goto of a       *)
(* `continue` targets its entry label, the label in front of its condition *)
(* code; behind an inner loop that has been lowered, a `break` or          *)
(* `continue` of the outer loop's body targets the outer loop's labels.    *)
(***************************************************************************)
LoopShape(w) ==
    LET P == PosIn(CodeOfRoot, w)
        C == PosIn(CodeOfRoot, w \o <<1>>)
    IN  /\ P = Min(P)..Max(P)
        /\ module.heap[EntryLabel(w)].op = "label"
        /\ module.heap[EntryLabel(w)].node = w
        /\ module.heap[ExitLabel(w)].op = "label"
        /\ module.heap[ExitLabel(w)].node = w
        /\ EntryLabel(w) # ExitLabel(w)
        /\ Min(C) = Min(P) + 1
        /\ module.heap[CodeOfRoot[Max(P) - 1]].op = "goto"
        /\ module.heap[CodeOfRoot[Max(P) - 1]].lbls = <<EntryLabel(w)>>

JumpTarget(path) ==
    LET w == InnermostLoop(path)
        target == IF NodeAt(root, path).node_type = "BREAK"
                  THEN ExitLabel(w) ELSE EntryLabel(w)
    IN  /\ Cardinality(GotosOf(path)) = 1
        /\ \A id \in GotosOf(path) :
              /\ module.heap[id].lbls = <<target>>
              /\ \E i \in PosIn(CodeOfRoot, w) : CodeOfRoot[i] = id
              /\ (Len(trace) > 1 /\ trace[Len(trace) - 1] = id) => Last(trace) = target

C7_JumpsTargetInnermostLoop ==
    (Translated /\ root \in LoopPrograms)
        => /\ \A w \in PathsOf(root, <<>>, "WHILE") : LoopShape(w)
           /\ \A path \in Jumps : LoopsAround(path) # {} => JumpTarget(path)

\* a run took a `break` (or `continue`) of an outer loop's body that stands
\* behind an inner loop, and then another jump inside the inner loop
C7_Witness ==
    /\ Running /\ root \in LoopPrograms
    /\ \E p \in Jumps, q \in Jumps, w \in PathsOf(root, <<>>, "WHILE") :
          /\ IsPrefix(w, q) /\ InnermostLoop(p) # w /\ InnermostLoop(p) \in LoopsAround(w)
          /\ \E k \in 1..Len(w) : w[k] < p[k] /\ SubSeq(w, 1, k - 1) = SubSeq(p, 1, k - 1)
          /\ Executed(GotosOf(p)) /\ Executed(GotosOf(q))

(***************************************************************************)
(* C8.  Lowering a `break` or `continue` that is inside no while loop of   *)
(* the function fails: run() returns false and no Goto is created for it;  *)
(* so it is for one placed behind a while statement that has been lowered  *)
(* completely.                                                             *)
(***************************************************************************)
C8_JumpOutsideLoopFails ==
    (phase # "parsed" /\ root \in LoopPrograms)
        => \A path \in Jumps :
              LoopsAround(path) = {} => (result = "false" /\ GotosOf(path) = {})

\* the only jump outside a loop stands behind the loops, which were lowered
\* with jumps of their own: the run failed there
C8_Witness ==
    /\ phase = "lowered" /\ root \in LoopPrograms /\ result = "false"
    /\ \E path \in Jumps :
          /\ LoopsAround(path) = {} /\ path = <<1, 4, 3>>
          /\ \A q \in Jumps \ {path} : LoopsAround(q) # {} /\ GotosOf(q) # {}
    /\ Cardinality(Jumps) > 2


InitCall == Init /\ root \in CallPrograms

SpecCall == InitCall /\ [][Next]_vars

Calls == PathsOf(root, <<>>, "FUNC_CALL")

ArgsOf(path) == NodeAt(root, path).sons[2].sons

\* the formal parameters of the function a call names
ParamsOfCallee(path) ==
    module.funcs[findFunction(module, NodeAt(root, path).sons[1].name)].params

CallInsts(path) ==
    {id \in 1..Len(module.heap) :
        module.heap[id].op = "call" /\ module.heap[id].node = path}

\* the value argument k of the call at path yields: the variable, the
\* constant, or the instruction that computes it
IsValueOfArg(id, path, k) ==
    LET arg == ArgsOf(path)[k]
        v == module.heap[id]
    IN  CASE arg.node_type = "LEAF_VAR_ID" -> v.vk = "local" /\ v.name = arg.name
          [] arg.node_type = "LEAF_LITERAL_UINT" ->
                v.vk = "const" /\ v.n = arg.integer_val
          [] OTHER -> v.vk = "inst" /\ v.node = path \o <<2, k>>

(***************************************************************************)
(* C9.  A call with more or with fewer arguments than the callee has       *)
(* formal parameters makes ir_function_call fail, and no FuncCall          *)
(* instruction is created for it; a call with as many produces exactly one *)
(* FuncCall, placed behind the instructions of all its arguments, which    *)
(* stand in the order of the arguments, left to right.                     *)
(***************************************************************************)
CallMismatch(path) ==
    Len(ArgsOf(path)) # Len(ParamsOfCallee(path))
        => result = "false" /\ CallInsts(path) = {}

CallMatch(path) ==
    LET code == module.funcs[FuncOf(path)].code
        n == Len(ArgsOf(path))
        at == {i \in 1..Len(code) : code[i] \in CallInsts(path)}
    IN  (Len(ArgsOf(path)) = Len(ParamsOfCallee(path)) /\ result = "true")
           => /\ Cardinality(CallInsts(path)) = 1
              /\ Cardinality(at) = 1
              /\ \A i \in at :
                    /\ \A j \in PosIn(code, path \o <<2>>) : j < i
                    /\ Len(module.heap[code[i]].ops) = n
                    /\ \A k \in 1..n : IsValueOfArg(module.heap[code[i]].ops[k], path, k)
              /\ \A k \in 1..n : \A l \in 1..n :
                    k < l => \A i \in PosIn(code, path \o <<2, k>>) :
                             \A j \in PosIn(code, path \o <<2, l>>) : i < j

C9_CallArity ==
    (phase # "parsed" /\ root \in CallPrograms)
        => \A path \in Calls : CallMismatch(path) /\ CallMatch(path)

\* g has two parameters and is called with three arguments, each of which
\* was lowered (the calls of h among them are right): the run failed
C9_Witness ==
    /\ phase = "lowered" /\ root \in CallPrograms /\ result = "false"
    /\ Len(module.funcs[2].params) = 2
    /\ \E path \in Calls :
          /\ NodeAt(root, path).sons[1].name = "g"
          /\ ArgsOf(path) = <<Call("h", <<Var("a")>>), Op2("ADD", Var("a"), Uint(1)),
                              Call("h", <<Var("a")>>)>>
          /\ CallInsts(path \o <<2, 1>>) # {} /\ CallInsts(path \o <<2, 3>>) # {}


InitUndef == Init /\ root \in UndefPrograms

SpecUndef == InitUndef /\ [][Next]_vars

(***************************************************************************)
(* C10.  Lowering an expression that mentions a variable no enclosing      *)
(* scope declares is a semantic error: the identifier handler fails, every *)
(* handler above it fails, and IRGenerator::run() returns false.           *)
(***************************************************************************)
C10_UndefinedVariableFails ==
    (phase # "parsed" /\ root \in UndefPrograms)
        => /\ ~ir_leaf_node_var_id(Var("x"), module, <<>>).ok
           /\ result = "false"

InitNot == Init /\ root \in NotPrograms

SpecNot == InitNot /\ [][Next]_vars

\* the `!` nodes used as values: the operand of a return or an assignment
NotValues ==
    {p \in PathsOf(root, <<>>, "NOT") :
        NodeAt(root, SubSeq(p, 1, Len(p) - 1)).node_type \in {"RETURN", "ASSIGN"}}

\* positions in the code of function 1 of the instructions with operator op
\* that the handler of the node at path created
OwnAt(path, op) ==
    {k \in 1..Len(CodeOfRoot) :
        /\ module.heap[CodeOfRoot[k]].op = op
        /\ module.heap[CodeOfRoot[k]].node = path}

\* the instruction behind the `!` at path, which consumes its value
ConsumerOf(path) ==
    CHOOSE k \in OwnAt(SubSeq(path, 1, Len(path) - 1), "move") : TRUE

\* true label, Move(r, 1), Goto(end), false label, Move(r, 0), end label, in
\* a row, each label once in the code, and r is the value handed on
NotValueShape(path) ==
    LET L == OwnAt(path, "label")
        M == OwnAt(path, "move")
        G == OwnAt(path, "goto")
        inst(k) == module.heap[CodeOfRoot[k]]
        const(k) == module.heap[inst(k).ops[2]]
    IN  /\ Cardinality(L) = 3 /\ Cardinality(M) = 2 /\ Cardinality(G) = 1
        /\ Cardinality({CodeOfRoot[k] : k \in L}) = 3
        /\ L = {Min(L), Min(L) + 3, Min(L) + 5}
        /\ M = {Min(L) + 1, Min(L) + 4}
        /\ G = {Min(L) + 2}
        /\ inst(Min(L) + 2).lbls = <<CodeOfRoot[Min(L) + 5]>>
        /\ inst(Min(L) + 1).ops[1] = inst(Min(L) + 4).ops[1]
        /\ const(Min(L) + 1).vk = "const" /\ const(Min(L) + 1).n = 1
        /\ const(Min(L) + 4).vk = "const" /\ const(Min(L) + 4).n = 0
        /\ inst(ConsumerOf(path)).ops[2] = inst(Min(L) + 1).ops[1]

(***************************************************************************)
(* C11.  `!e` used as a value, for a leaf and for a compound operand e:    *)
(* lowering succeeds; the handler's true, false and end labels are each    *)
(* in the code exactly once; the result variable is assigned 1 behind the  *)
(* true label and 0 behind the false label, both paths meet at the end     *)
(* label, and the result variable is the node's value; a run that returns  *)
(* returns 1 exactly when e is zero.                                       *)
(***************************************************************************)
C11_NotAsValue ==
    (phase # "parsed" /\ root \in NotPrograms)
        => /\ result = "true"
           /\ ~module.ub
           /\ \A p \in NotValues : NotValueShape(p)
           /\ phase = "exited"
                 => \A p \in NotValues : env[Last(trace)] = ValueInC(NodeAt(root, p))

InitRel == Init /\ root \in RelPrograms

SpecRel == InitRel /\ [][Next]_vars

\* the relational and logical nodes of the program
RelValues == UNION {PathsOf(root, <<>>, op) : op \in RelOps}

\* the instructions of function f: the operands are all there
OperandsNonNull(f) ==
    \A k \in 1..Len(module.funcs[f].code) :
        \A j \in 1..Len(module.heap[module.funcs[f].code[k]].ops) :
            module.heap[module.funcs[f].code[k]].ops[j] # 0

\* the instruction that consumes the value of the node at path: one created
\* by an ancestor's handler, with a non-null operand created below path or
\* by the handler at path
Consumed(path) ==
    \E id \in 1..Len(module.heap) :
        /\ module.heap[id].vk = "inst"
        /\ IsPrefix(module.heap[id].node, path) /\ module.heap[id].node # path
        /\ \E j \in 1..Len(module.heap[id].ops) :
              /\ module.heap[id].ops[j] # 0
              /\ module.heap[module.heap[id].ops[j]].vk \in {"inst", "local"}
              /\ module.heap[module.heap[id].ops[j]].node = path

\* what C has f return in the program that uses the node at path: the
\* node's value, plus 1 where the program returns `e + 1`
ReturnedInC(path) ==
    LET parent == NodeAt(root, SubSeq(path, 1, Len(path) - 1))
    IN  IF parent.node_type = "ADD" THEN ValueInC(parent)
        ELSE ValueInC(NodeAt(root, path))

(***************************************************************************)
(* C12.  A relational (==, !=, <, <=, >, >=) or `&&` / `||` expression in  *)
(* value context (right-hand side of an assignment or of an initializer,   *)
(* returned expression, operand of `+`, call argument) lowers to a         *)
(* non-null value, which the parent's instruction takes as its operand,    *)
(* and a run finds 1 in it when the expression is true and 0 when false.   *)
(***************************************************************************)
C12_RelationalAsValue ==
    (phase # "parsed" /\ root \in RelPrograms /\ RelValues # {})
        => /\ result = "true"
           /\ \A f \in 1..Len(module.funcs) : OperandsNonNull(f)
           /\ \A p \in RelValues : Consumed(p)
           /\ (phase = "exited" /\ PathsOf(root, <<>>, "FUNC_CALL") = {} /\ fn = 2)
                 => \A p \in RelValues : env[Last(trace)] = ReturnedInC(p)

InitRoundTrip == Init /\ root \in RoundTripPrograms

SpecRoundTrip == InitRoundTrip /\ [][Next]_vars

\* the assignment `a[..] = v` of the program and the value stored
StorePath == <<1, 4, 2>>

StoredValue == NodeAt(root, StorePath).sons[2].integer_val

\* the address of the element the access at path names
ElementAddress(path) ==
    LET node == NodeAt(root, path)
        arrayVar == module.heap[AddressOf(path)].ops[1]
        idx == [j \in 1..(Len(node.sons) - 1) |-> ValueInC(node.sons[j + 1])]
    IN  env[arrayVar] + 4 * LinearOffset(DeclaredDims(arrayVar), idx, 1)

\* the Move of the assignment has been executed
Stored ==
    \E k \in 1..Len(trace) :
        module.heap[trace[k]].op = "move" /\ module.heap[trace[k]].node = StorePath

(***************************************************************************)
(* C13.  After `a[i_0]..[i_{n-1}] = v` is executed, the temporary holding  *)
(* the element's address still holds that address (v went to memory, not   *)
(* into the temporary), and `return a[i_0]..[i_{n-1}]` returns v.          *)
(***************************************************************************)
C13_ArrayRoundTrip ==
    (Running /\ root \in RoundTripPrograms)
        => /\ Stored => env[AddressOf(StorePath \o <<1>>)]
                            = ElementAddress(StorePath \o <<1>>)
           /\ phase = "exited" => env[Last(trace)] = StoredValue

(***************************************************************************)
(* Global declarations.                                                    *)
(***************************************************************************)
InitGlobal == Init /\ root \in GlobalPrograms

SpecGlobal == InitGlobal /\ [][Next]_vars

\* the declarations of the compile unit that declare a global variable
GlobalDecls == {i \in 1..Len(root.sons) : root.sons[i].node_type = "DECL_STMT"}

DeclaredNode(i) == root.sons[i].sons[1].sons[2]

HasInitializer(i) == DeclaredNode(i).node_type = "ASSIGN"

NegInitializer(i) ==
    HasInitializer(i) /\ DeclaredNode(i).sons[2].node_type = "NEG"

GlobalOf(i) ==
    findVarValue(module, IF HasInitializer(i) THEN DeclaredNode(i).sons[1].name
                         ELSE DeclaredNode(i).name)

\* C14: every global declared with initializer -L has as its initial value
\* the constant -L of its own declaration, however many globals with a
\* negative initializer were lowered before it.
C14_NegativeGlobalInitializer ==
    (phase # "parsed" /\ root \in GlobalPrograms)
        => \A i \in GlobalDecls :
              NegInitializer(i)
                  => /\ module.heap[GlobalOf(i)].initValue # 0
                     /\ module.heap[module.heap[GlobalOf(i)].initValue].vk = "const"
                     /\ module.heap[module.heap[GlobalOf(i)].initValue].n
                            = 0 - DeclaredNode(i).sons[2].sons[1].integer_val

\* the text printed for a global: its declaration, then its initial value
DeclarationText(g) == toDeclareString(module, g) \o toInitString(module, g)

\* C15: after lowering, a global declared without initializer is in the BSS
\* section and its declaration text contains no " = "; a global declared
\* with an initializer is not in the BSS section and its text ends with
\* " = " and its initial value; for every global, being in the BSS section
\* is the negation of being initialized.
C15_BssIffUninitialized ==
    (phase # "parsed" /\ root \in GlobalPrograms)
        => /\ result = "true"
           /\ \A i \in GlobalDecls :
                 LET g == GlobalOf(i)
                     text == DeclarationText(g)
                 IN  /\ g # 0
                     /\ module.heap[g].vk = "global"
                     /\ isInBSSSection(module, g) = ~module.heap[g].isInitialized
                     /\ ~HasInitializer(i)
                            => /\ isInBSSSection(module, g)
                               /\ \A k \in DOMAIN text : text[k] # Tok(" = ")
                     /\ HasInitializer(i)
                            => /\ ~isInBSSSection(module, g)
                               /\ module.heap[g].initValue # 0
                               /\ Len(text) >= 2
                               /\ SubSeq(text, Len(text) - 1, Len(text))
                                      = <<Tok(" = "),
                                          getIRName(module, module.heap[g].initValue)>>

(***************************************************************************)
(* Return statements.                                                      *)
(***************************************************************************)
InitRet == Init /\ root \in RetPrograms

SpecRet == InitRet /\ [][Next]_vars

\* id is the value of the expression at path
IsValueOf(id, path) ==
    LET e == NodeAt(root, path)
        v == module.heap[id]
    IN  CASE e.node_type = "LEAF_VAR_ID" -> v.vk = "local" /\ v.name = e.name
          [] e.node_type = "LEAF_LITERAL_UINT" ->
                v.vk = "const" /\ v.n = e.integer_val
          [] OTHER -> v.vk = "inst" /\ v.node = path

\* `return e;` : the instructions of e, one Move(retSlot, value of e), one
\* Goto(exitLabel), in one piece of the function's code
ReturnWithValue(path) ==
    LET f == module.funcs[FuncOf(path)]
        code == f.code
        own == PosIn(code, path)
        last == Max(own)
        move == module.heap[code[last - 1]]
        goto == module.heap[code[last]]
    IN  /\ Cardinality(own) >= 2
        /\ own = (last - Cardinality(own) + 1)..last
        /\ goto.op = "goto" /\ goto.node = path /\ goto.lbls = <<f.exitLabel>>
        /\ move.op = "move" /\ move.node = path
        /\ Len(move.ops) = 2
        /\ move.ops[1] = f.returnValue
        /\ move.ops[2] # 0
        /\ IsValueOf(move.ops[2], path \o <<1>>)
        /\ \A k \in own \ {last - 1, last} :
              IsPrefix(path \o <<1>>, module.heap[code[k]].node)
        /\ module.heap[move.ops[2]].vk = "inst" => move.ops[2] = code[last - 2]

\* `return;` : only the Goto(exitLabel)
ReturnWithoutValue(path) ==
    LET f == module.funcs[FuncOf(path)]
        own == PosIn(f.code, path)
    IN  /\ Cardinality(own) = 1
        /\ \A k \in own : /\ module.heap[f.code[k]].op = "goto"
                          /\ module.heap[f.code[k]].lbls = <<f.exitLabel>>

\* the type of the returned value is not the declared return type
TypeMismatch(path) ==
    LET f == module.funcs[FuncOf(path)]
        own == PosIn(f.code, path)
        move == module.heap[f.code[Max(own) - 1]]
    IN  /\ Cardinality(own) >= 2
        /\ move.op = "move"
        /\ module.heap[move.ops[2]].ty # module.heap[f.returnValue].ty

\* C16: `return e;` in a non-void function lowers to the instructions of e,
\* then exactly one Move(retSlot, value of e), then exactly one
\* Goto(exitLabel) as the last instruction of the statement; `return;` in a
\* void function lowers to only Goto(exitLabel); a type mismatch between e
\* and the declared return type does not make the handler fail.
C16_ReturnLowering ==
    (phase # "parsed" /\ root \in RetPrograms)
        => /\ result = "true"
           /\ \A path \in PathsOf(root, <<>>, "RETURN") :
                 IF module.funcs[FuncOf(path)].returnValue # 0
                 THEN NodeAt(root, path).sons # <<>> /\ ReturnWithValue(path)
                 ELSE NodeAt(root, path).sons = <<>> /\ ReturnWithoutValue(path)
           /\ \A k \in 1..(Len(trace) - 1) :
                 (/\ module.heap[trace[k]].op = "move"
                  /\ module.heap[trace[k]].node \in PathsOf(root, <<>>, "RETURN"))
                     => /\ module.heap[trace[k + 1]].op = "goto"
                        /\ module.heap[trace[k + 1]].node = module.heap[trace[k]].node

\* f returned the result of the void g, and a run went through that return
C16_Witness ==
    /\ phase = "exited" /\ root \in RetPrograms
    /\ \E path \in PathsOf(root, <<>>, "RETURN") :
          /\ TypeMismatch(path)
          /\ \E k \in 1..Len(trace) :
                /\ module.heap[trace[k]].op = "move"
                /\ module.heap[trace[k]].node = path

(***************************************************************************)
(* Assignments.                                                            *)
(***************************************************************************)
InitAssign == Init /\ root \in AssignPrograms

SpecAssign == InitAssign /\ [][Next]_vars

\* positions of the Move that the assignment at path appended itself
MoveOf(code, path) ==
    {k \in 1..Len(code) :
        module.heap[code[k]].op = "move" /\ module.heap[code[k]].node = path}

AssignOrdered(path) ==
    LET code == module.funcs[FuncOf(path)].code
        lhs == PosIn(code, path \o <<1>>)
        rhs == PosIn(code, path \o <<2>>)
        moves == MoveOf(code, path)
    IN  /\ Cardinality(moves) = 1
        /\ PosIn(code, path) = lhs \cup rhs \cup moves
        /\ \A r \in rhs : \A l \in lhs : r < l
        /\ \A mv \in moves :
              /\ \A k \in lhs \cup rhs : k < mv
              /\ IsValueOf(module.heap[code[mv]].ops[1], path \o <<1>>)
              /\ IsValueOf(module.heap[code[mv]].ops[2], path \o <<2>>)

\* C17: for every assignment lhs = rhs, in the emitted instruction list all
\* instructions of rhs precede all instructions of lhs (the address
\* computation of an array access), and Move(lhs value, rhs value) comes
\* after both; a run executes them in that order.
C17_AssignOrder ==
    (phase # "parsed" /\ root \in AssignPrograms)
        => /\ result = "true"
           /\ \A path \in PathsOf(root, <<>>, "ASSIGN") : AssignOrdered(path)
           /\ \A path \in PathsOf(root, <<>>, "ASSIGN") :
                 \A x, y \in 1..Len(trace) :
                    (/\ IsPrefix(path \o <<2>>, module.heap[trace[x]].node)
                     /\ \/ IsPrefix(path \o <<1>>, module.heap[trace[y]].node)
                        \/ module.heap[trace[y]].node = path)
                        => x < y

\* an assignment whose two sides both have instructions was lowered and run
C17_Witness ==
    /\ phase = "exited" /\ root \in AssignPrograms
    /\ \E path \in PathsOf(root, <<>>, "ASSIGN") :
          /\ PosIn(module.funcs[FuncOf(path)].code, path \o <<1>>) # {}
          /\ PosIn(module.funcs[FuncOf(path)].code, path \o <<2>>) # {}
          /\ \E k \in 1..Len(trace) :
                module.heap[trace[k]].op = "move" /\ module.heap[trace[k]].node = path

(***************************************************************************)
(* Array accesses: pointer or loaded value.                                *)
(***************************************************************************)
InitAccess == Init /\ root \in AccessPrograms

SpecAccess == InitAccess /\ [][Next]_vars

\* the array accesses of the body of f (not the declarators of parameters)
AccessPaths ==
    {path \in PathsOf(root, <<>>, "ARRAY_ACCESS") : path[1] = 3 /\ path[2] = 4}

ParentOf(path) == NodeAt(root, SubSeq(path, 1, Len(path) - 1))

\* the dimensions the program declares for `a`, a local array or a parameter
\* whose first extent is left open
DimsInSource ==
    LET decls == PathsOf(root, <<>>, "ARRAY_DECL")
        param == NodeAt(root, <<3, 3, 1, 2>>)
    IN  IF decls # {}
        THEN LET d == NodeAt(root, CHOOSE q \in decls : TRUE)
             IN  [i \in 1..(Len(d.sons) - 1) |-> d.sons[i + 1].integer_val]
        ELSE <<0>> \o [i \in 1..(Len(param.sons) - 1) |->
                          param.sons[i + 1].integer_val]

IndexCount(path) == Len(NodeAt(root, path).sons) - 1

AssignmentTarget(path) ==
    ParentOf(path).node_type = "ASSIGN" /\ Last(path) = 1

PartialArgument(path) ==
    /\ ParentOf(path).node_type = "FUNC_REAL_PARAMS"
    /\ IndexCount(path) < Len(DimsInSource)

\* the path the instructions of the access carry: a condition that is not a
\* comparison is lowered as the first son of a new `!=` node
LoweredAt(path) ==
    IF ParentOf(path).node_type \in {"IF", "WHILE"} /\ Last(path) = 1
    THEN path \o <<1>> ELSE path

DerefsOf(path) ==
    {id \in 1..Len(module.heap) :
        module.heap[id].op = "deref" /\ module.heap[id].node = LoweredAt(path)}

\* id is an operand of an instruction of f that is not part of the access
UsedOutside(id, path) ==
    \E k \in 1..Len(module.funcs[3].code) :
        /\ ~IsPrefix(LoweredAt(path), module.heap[module.funcs[3].code[k]].node)
        /\ id \in Range(module.heap[module.funcs[3].code[k]].ops)

YieldsPointer(path) ==
    /\ DerefsOf(path) = {}
    /\ module.heap[AddressOf(LoweredAt(path))].ty = "ptr"
    /\ UsedOutside(AddressOf(LoweredAt(path)), path)

YieldsLoaded(path) ==
    LET code == module.funcs[3].code
        addr == AddressOf(LoweredAt(path))
    IN  /\ Cardinality(DerefsOf(path)) = 1
        /\ \A d \in DerefsOf(path) :
              /\ module.heap[d].ops = <<addr>>
              /\ module.heap[d].ty = "int"
              /\ \E k \in 1..(Len(code) - 1) : code[k] = addr /\ code[k + 1] = d
              /\ UsedOutside(d, path)
        /\ ~UsedOutside(addr, path)

\* C18: ir_array_access emits a deref and yields the loaded scalar exactly
\* when the access is neither the left-hand child of an assignment nor a
\* partially indexed member of a call's argument list; in those two cases
\* no deref is emitted and the value is the pointer-typed address.
C18_DerefUnlessTargetOrPartialArg ==
    (phase # "parsed" /\ root \in AccessPrograms)
        => /\ result = "true"
           /\ \A path \in AccessPaths :
                 IF AssignmentTarget(path) \/ PartialArgument(path)
                 THEN YieldsPointer(path)
                 ELSE YieldsLoaded(path)

\* a[i] = a[i] was lowered and run: the same access as a target and as a
\* value
C18_Witness ==
    /\ phase = "exited" /\ root \in AccessPrograms
    /\ \E p, q \in AccessPaths :
          /\ AssignmentTarget(p) /\ YieldsPointer(p)
          /\ ParentOf(q).node_type = "ASSIGN" /\ Last(q) = 2 /\ YieldsLoaded(q)
          /\ \A d \in DerefsOf(q) : d \in Range(trace)

\* C19: an array of dimensions d_0..d_{n-1} passed as a call argument with
\* k < n indices yields a pointer that is flagged as an array and carries
\* exactly the dimensions d_k..d_{n-1}, in order.
C19_PartialArgumentDims ==
    (phase # "parsed" /\ root \in AccessPrograms)
        => \A path \in AccessPaths :
              PartialArgument(path)
                  => /\ module.heap[AddressOf(path)].isArray
                     /\ module.heap[AddressOf(path)].dims
                            = [j \in 1..(Len(DimsInSource) - IndexCount(path)) |->
                                  DimsInSource[IndexCount(path) + j]]
                     /\ UsedOutside(AddressOf(path), path)

\* a[i] of an array with three dimensions, the last two different, was
\* passed to g, and the call was executed
C19_Witness ==
    /\ phase = "exited" /\ root \in AccessPrograms
    /\ Len(DimsInSource) = 3 /\ DimsInSource[2] # DimsInSource[3]
    /\ \E path \in AccessPaths :
          /\ PartialArgument(path) /\ IndexCount(path) = 1
          /\ module.heap[AddressOf(path)].dims = SubSeq(DimsInSource, 2, 3)
          /\ \E k \in 1..Len(trace) :
                /\ module.heap[trace[k]].op = "call"
                /\ AddressOf(path) \in Range(module.heap[trace[k]].ops)

(***************************************************************************)
(* The break and continue label stacks.                                    *)
(***************************************************************************)
InitWhile == Init /\ root \in WhilePrograms

SpecWhile == InitWhile /\ [][Next]_vars

\* C20: whenever ir_while_statement returns, whether the lowering of its
\* condition and body succeeded or failed, the break-label and
\* continue-label stacks of the function have the contents they had when it
\* was entered, and the two stacks have equal depth.  The body of f is a
\* `while` followed by a `return`, and the stacks of a function are empty
\* when its body is entered: once the generator has run they are empty.
C20_LabelStacksRestored ==
    (phase # "parsed" /\ root \in WhilePrograms)
        => \A f \in 1..Len(module.funcs) :
              /\ Len(module.funcs[f].breakLabels) = Len(module.funcs[f].continueLabels)
              /\ module.funcs[f].breakLabels = <<>>
              /\ module.funcs[f].continueLabels = <<>>

(***************************************************************************)
(* Scopes and the current function.                                        *)
(***************************************************************************)
InitScope == Init /\ root \in ScopePrograms

SpecScope == InitScope /\ [][Next]_vars

\* C21: whenever ir_block (with needScope set) or ir_function_define
\* returns, an early return after a semantic error in a child included, the
\* scope depth of the module is the depth at entry and, for
\* ir_function_define, the current function is cleared.  The compile unit is
\* entered with the global scope alone and no current function: once the
\* generator has run, that is the state again.
C21_ScopeRestored ==
    (phase # "parsed" /\ root \in ScopePrograms)
        => /\ Len(module.scopes) = Len(EmptyModule.scopes)
           /\ module.cur = 0

(***************************************************************************)
(* Formal parameters.                                                      *)
(***************************************************************************)
InitParam == Init /\ root \in ParamPrograms

SpecParam == InitParam /\ [][Next]_vars

ParamsInSource == root.sons[1].sons[3].sons

\* the name a formal parameter declares
ParamName(p) ==
    IF p.sons[2].node_type = "ARRAY_ACCESS" THEN p.sons[2].sons[1].name
    ELSE p.sons[2].name

\* the handler of the i-th parameter fails: no type, an extent that is no
\* literal, or a name an earlier parameter has declared
ParamFails(i) ==
    LET p == ParamsInSource[i]
    IN  \/ p.sons[1].type = ""
        \/ /\ p.sons[2].node_type = "ARRAY_ACCESS"
           /\ \E k \in 2..Len(p.sons[2].sons) :
                 p.sons[2].sons[k].node_type # "LEAF_LITERAL_UINT"
        \/ \E j \in 1..(i - 1) :
              /\ ParamsInSource[j] \in GoodParams
              /\ ParamName(ParamsInSource[j]) = ParamName(p)

\* C22: if the handler of any single formal parameter fails (invalid type,
\* non-constant array dimension, or the parameter's local variable cannot be
\* created), ir_function_formal_params fails and so does the lowering of
\* the function definition.
C22_ParamFailurePropagates ==
    (phase # "parsed" /\ root \in ParamPrograms)
        => ((\E i \in 1..Len(ParamsInSource) : ParamFails(i))
                => result = "false")

(***************************************************************************)
(* Array formal parameters.                                                *)
(***************************************************************************)
InitBracket == Init /\ root \in BracketPrograms

SpecBracket == InitBracket /\ [][Next]_vars

\* first entry 0, then the sizes of the bracket pairs 2..k
DimsOfBrackets(brackets) ==
    <<0>> \o [i \in 1..(Len(brackets) - 1) |-> brackets[i + 1][1]]

\* the FormalParam and the LocalVariable of the parameter `a`
RecordedAs(vk) ==
    {id \in 1..Len(module.heap) :
        module.heap[id].vk = vk /\ module.heap[id].name = "a"}

\* C23: an array formal parameter written with k bracket pairs (the first
\* extent omitted or given) is recorded, on the FormalParam and on the
\* LocalVariable bound to it, with a dimension sequence of length k: 0, then
\* the sizes of the bracket pairs 2..k in order.
C23_ArrayParamDims ==
    (phase # "parsed" /\ root \in BracketPrograms)
        => \A brackets \in BracketLists :
              root = BracketProgram(brackets)
                  => \A vk \in {"param", "local"} :
                        /\ RecordedAs(vk) # {}
                        /\ \A id \in RecordedAs(vk) :
                              /\ module.heap[id].isArray
                              /\ module.heap[id].dims = DimsOfBrackets(brackets)

(***************************************************************************)
(* if statements.                                                          *)
(***************************************************************************)
InitIf == Init /\ root \in IfPrograms

SpecIf == InitIf /\ [][Next]_vars

IdsAt(pos) == {CodeOfRoot[k] : k \in pos}

\* positions of the instructions of kind op the handler at path made itself
OwnPos(path, op) ==
    {k \in 1..Len(CodeOfRoot) :
        /\ module.heap[CodeOfRoot[k]].op = op
        /\ module.heap[CodeOfRoot[k]].node = path}

HasElse(path) == Len(NodeAt(root, path).sons) > 2

ThenLabel(path) == CodeOfRoot[Min(OwnPos(path, "label"))]

EndLabel(path) == CodeOfRoot[Max(OwnPos(path, "label"))]

ElseLabel(path) ==
    CHOOSE l \in IdsAt(OwnPos(path, "label")) \ {ThenLabel(path), EndLabel(path)} :
        TRUE

\* the label the condition leaves to when it is false
FalseLabel(path) == IF HasElse(path) THEN ElseLabel(path) ELSE EndLabel(path)

\* the labels that instructions at the positions pos jump to
JumpsFrom(pos) == UNION {TargetsOf(CodeOfRoot[k]) : k \in pos}

IfShape(path) ==
    LET code == CodeOfRoot
        own == PosIn(code, path)
        labels == OwnPos(path, "label")
        gotos == OwnPos(path, "goto")
        cond == PosIn(code, path \o <<1>>)
        then == PosIn(code, path \o <<2>>)
        else == PosIn(code, path \o <<3>>)
        t == Min(labels)
        e == Max(labels)
    IN  /\ own = Min(own)..Max(own)
        /\ Cardinality(labels) = IF HasElse(path) THEN 3 ELSE 2
        /\ \A k \in labels : {j \in 1..Len(code) : code[j] = code[k]} = {k}
        /\ cond # {} /\ cond = Min(own)..(t - 1)
        /\ e = Max(own)
        /\ JumpsFrom(cond) \ IdsAt(cond) \subseteq {ThenLabel(path), FalseLabel(path)}
        /\ JumpsFrom(cond) \ IdsAt(cond) # {}
        /\ JumpsFrom((1..Len(code)) \ cond) \cap {ThenLabel(path), FalseLabel(path)}
              \subseteq (IF HasElse(path) THEN {} ELSE {EndLabel(path)})
        /\ IF HasElse(path)
           THEN /\ Cardinality(gotos) = 1
                /\ \A g \in gotos :
                      /\ module.heap[code[g]].lbls = <<EndLabel(path)>>
                      /\ then = (t + 1)..(g - 1)
                      /\ code[g + 1] = ElseLabel(path)
                      /\ else = (g + 2)..(e - 1)
           ELSE /\ gotos = {}
                /\ then = (t + 1)..(e - 1)

Times(id) == Cardinality({k \in 1..Len(trace) : trace[k] = id})

IfRuns(path) ==
    LET c == ValueInC(NodeAt(root, path \o <<1>>))
        cond == IdsAt(PosIn(CodeOfRoot, path \o <<1>>))
        then == IdsAt(PosIn(CodeOfRoot, path \o <<2>>))
        else == IdsAt(PosIn(CodeOfRoot, path \o <<3>>))
        returns == {q \in PathsOf(root, <<>>, "RETURN") : IsPrefix(path, q)}
    IN  /\ \A l \in IdsAt(OwnPos(path, "label")) : Times(l) <= 1
        /\ Times(ThenLabel(path)) = 1 => c # 0
        /\ Times(FalseLabel(path)) = 1 /\ Times(ThenLabel(path)) = 0 => c = 0
        /\ Executed(then) => Times(ThenLabel(path)) = 1
        /\ HasElse(path)
              => /\ Executed(else) => Times(ElseLabel(path)) = 1
                 /\ ~(Times(ThenLabel(path)) = 1 /\ Times(ElseLabel(path)) = 1)
                 /\ ~(Executed(then) /\ Executed(else))
        /\ (phase = "exited" /\ Executed(cond))
              => /\ Times(ThenLabel(path)) + Times(FalseLabel(path)) >= 1
                 /\ HasElse(path)
                       => Times(ThenLabel(path)) + Times(ElseLabel(path)) = 1
                 /\ returns = {} => Times(EndLabel(path)) = 1

\* C24: for every `if`, the condition code branches only to thenLabel or
\* to elseLabel (endLabel when there is no else), the then-body is followed
\* by Goto(endLabel) when there is an else, endLabel is emitted exactly once
\* behind all bodies and both paths reach it; a run executes exactly one of
\* then-body and else-body for an evaluation of the condition, the
\* then-body exactly when the condition is true.
C24_IfExactlyOneBranch ==
    (phase # "parsed" /\ root \in IfPrograms)
        => /\ result = "true"
           /\ \A path \in PathsOf(root, <<>>, "IF") : IfShape(path)
           /\ trace # <<>> => \A path \in PathsOf(root, <<>>, "IF") : IfRuns(path)

\* an if with an else inside the else-branch of an if was lowered, and a run
\* went through the outer else-body and the inner then-body to the end of
\* the outer if
C24_Witness ==
    /\ phase = "exited" /\ root \in IfPrograms
    /\ \E p, q \in PathsOf(root, <<>>, "IF") :
          /\ q = p \o <<3>> /\ HasElse(q)
          /\ Times(ElseLabel(p)) = 1 /\ Times(ThenLabel(q)) = 1
          /\ Times(EndLabel(q)) = 1 /\ Times(EndLabel(p)) = 1

(***************************************************************************)
(* while statements.                                                       *)
(***************************************************************************)
InitRun == Init /\ root \in RunPrograms

SpecRun == InitRun /\ [][Next]_vars

\* the local variable of f that holds the variable called name
LocalOf(name) ==
    CHOOSE id \in 1..Len(module.heap) :
        module.heap[id].vk = "local" /\ module.heap[id].name = name

\* the value of an expression without side effects in the present state
RECURSIVE ValueNow(_)
ValueNow(node) ==
    LET t == node.node_type
        x == ValueNow(node.sons[1])
        y == ValueNow(node.sons[2])
        bool(c) == IF c THEN 1 ELSE 0
    IN  CASE t = "LEAF_LITERAL_UINT" -> node.integer_val
          [] t = "LEAF_VAR_ID" -> env[LocalOf(node.name)]
          [] t = "NOT" -> bool(x = 0)
          [] t = "AND" -> IF x = 0 THEN 0 ELSE bool(y # 0)
          [] t = "EQ" -> bool(x = y)
          [] t = "LT" -> bool(x < y)

BodyLabel(w) ==
    CHOOSE l \in IdsAt(OwnPos(w, "label")) \ {EntryLabel(w), ExitLabel(w)} : TRUE

\* the Gotos of the `break` and `continue` statements whose loop is w
JumpsOf(w, t) ==
    UNION {GotosOf(q) : q \in {r \in PathsOf(root, <<>>, t) :
                                  LoopsAround(r) # {} /\ InnermostLoop(r) = w}}

WhileShape(w) ==
    LET code == CodeOfRoot
        own == PosIn(code, w)
        cond == PosIn(code, w \o <<1>>)
        body == PosIn(code, w \o <<2>>)
        back == OwnPos(w, "goto")
        b == CHOOSE k \in 1..Len(code) : code[k] = BodyLabel(w)
        others == (1..Len(code)) \ cond
    IN  /\ own = Min(own)..Max(own)
        /\ Cardinality(OwnPos(w, "label")) = 3
        /\ \A k \in OwnPos(w, "label") : {j \in 1..Len(code) : code[j] = code[k]} = {k}
        /\ OwnPos(w, "label") = {Min(own), b, Max(own)}
        /\ cond # {} /\ cond = (Min(own) + 1)..(b - 1)
        /\ back = {Max(own) - 1}
        /\ module.heap[code[Max(own) - 1]].lbls = <<EntryLabel(w)>>
        /\ body = (b + 1)..(Max(own) - 2)
        /\ JumpsFrom(cond) \ IdsAt(cond) = {BodyLabel(w), ExitLabel(w)}
        /\ \A k \in others :
              /\ BodyLabel(w) \notin TargetsOf(code[k])
              /\ ExitLabel(w) \in TargetsOf(code[k]) => code[k] \in JumpsOf(w, "BREAK")
              /\ EntryLabel(w) \in TargetsOf(code[k])
                    => code[k] \in JumpsOf(w, "CONTINUE") \cup IdsAt(back)

WhileRuns(w) ==
    LET c == NodeAt(root, w \o <<1>>)
        own == IdsAt(PosIn(CodeOfRoot, w))
        cond == IdsAt(PosIn(CodeOfRoot, w \o <<1>>))
        returns == UNION {GotosOf(q) : q \in {r \in PathsOf(root, <<>>, "RETURN") :
                                                  IsPrefix(w, r)}}
        n == Len(trace)
    IN  /\ \A k \in 1..n :
              trace[k] = BodyLabel(w)
                  => /\ k > 1 /\ trace[k - 1] \in cond
                     /\ \E j \in 1..(k - 1) :
                           /\ trace[j] = EntryLabel(w)
                           /\ \A i \in (j + 1)..(k - 1) : trace[i] \in cond
                     /\ k = n => ValueNow(c) # 0
        /\ \A k \in 1..n :
              trace[k] \in own \ (cond \cup {EntryLabel(w), BodyLabel(w), ExitLabel(w)})
                  => \E j \in 1..(k - 1) :
                        /\ trace[j] = BodyLabel(w)
                        /\ \A i \in (j + 1)..k : trace[i] # EntryLabel(w)
        /\ \A k \in 2..n :
              trace[k] = ExitLabel(w)
                  => /\ trace[k - 1] \in cond \cup JumpsOf(w, "BREAK")
                     /\ (k = n /\ trace[k - 1] \in cond) => ValueNow(c) = 0
        /\ \A k \in 1..(n - 1) :
              (trace[k] \in own /\ trace[k + 1] \notin own)
                  => trace[k] \in {ExitLabel(w)} \cup returns

\* C25: for every `while`, the emitted IR is entryLabel, the condition
\* code branching to (bodyLabel, exitLabel), bodyLabel, the body,
\* Goto(entryLabel), exitLabel, in that order; so the condition is evaluated
\* again before every pass through the body, the body runs only after the
\* condition was true, and control reaches the code behind the loop only
\* through exitLabel.
C25_WhileShape ==
    (phase # "parsed" /\ root \in RunPrograms)
        => /\ result = "true"
           /\ \A w \in PathsOf(root, <<>>, "WHILE") : WhileShape(w)
           /\ trace # <<>> => \A w \in PathsOf(root, <<>>, "WHILE") : WhileRuns(w)

\* a run passed through the body of a loop twice and left the loop when its
\* condition had become false
C25_Witness ==
    /\ phase = "exited" /\ root \in RunPrograms
    /\ \E w \in PathsOf(root, <<>>, "WHILE") :
          /\ Times(BodyLabel(w)) = 2
          /\ \E k \in 2..Len(trace) :
                /\ trace[k] = ExitLabel(w)
                /\ trace[k - 1] \in IdsAt(PosIn(CodeOfRoot, w \o <<1>>))

(***************************************************************************)
(* Def-use edges.                                                          *)
(***************************************************************************)
\* the edges in the use list of val that belong to user
UseEdges(val, user) ==
    {k \in 1..Len(module.uses) : module.uses[k] = <<val, user>>}

\* the places at which the instruction i consumes val
Consumes(i, val) ==
    {k \in 1..Len(module.heap[i].ops) : module.heap[i].ops[k] = val}

Registered(i) ==
    \A val \in 1..Len(module.heap) :
        Cardinality(UseEdges(val, i)) = Cardinality(Consumes(i, val))

\* C26: every value consumed by an instruction is registered as an operand
\* with a def-use edge on the consumed value; the use list of the condition
\* of a CondGoto holds one edge for that CondGoto, as the use list of the
\* source of a Unary instruction does for the Unary instruction.
C26_OperandsRegistered ==
    (phase # "parsed" /\ root \in IfPrograms)
        => \A i \in 1..Len(module.heap) :
              module.heap[i].vk = "inst" => Registered(i)

(***************************************************************************)
(* The selector translating instructions one after the other.              *)
(***************************************************************************)
IRInst(op, args, res, hasResult, name, falseName) ==
    [op |-> op, args |-> args, result |-> res, hasResult |-> hasResult,
     name |-> name, falseName |-> falseName]

\* two variables of the frame, a constant, and the temporary of a result
SelX == MemVariable(ARM32_FP_REG_NO, LocalOff(0))

SelY == MemVariable(ARM32_FP_REG_NO, LocalOff(1))

SelC == ConstValue(1)

SelT == MemVariable(ARM32_FP_REG_NO, LocalOff(2))

SelOperands == {SelX, SelY, SelC}

SelArgLists ==
    { <<>>, <<SelX, SelC>>, <<SelX, SelY, SelC, SelX, SelY>>,
      <<SelC, SelC, SelC, SelC, SelX, SelC>> }

SelInsts ==
    { IRInst("move", <<d, a>>, d, FALSE, "", "") :
        d \in {SelX, intRegVal(0)}, a \in {SelY, SelC, intRegVal(0)} }
    \cup { IRInst("neg", <<a>>, SelT, TRUE, "", "") : a \in SelOperands }
    \cup { IRInst(op, <<a, b>>, SelT, TRUE, "", "") :
             op \in {"add", "div", "mod", "cmp_lt", "cmp_eq"},
             a \in SelOperands, b \in SelOperands }
    \cup { IRInst("cond_goto", <<a>>, SelT, FALSE, ".L1", ".L2") : a \in {SelT, SelC} }
    \cup { IRInst("call", a, SelT, h, "g", "") :
             a \in SelArgLists, h \in BOOLEAN }

InitTranslate ==
    /\ root = CompileUnit(<<>>)
    /\ phase = "select"
    /\ result = "none"
    /\ module = EmptyModule
    /\ NoExec
    /\ call \in {<<i, j>> : i \in SelInsts, j \in SelInsts}
    /\ asm = <<>>
    /\ allocated = {}
    /\ regValues = <<>>
    /\ apc = 0
    /\ regs = <<>> /\ stack = <<>> /\ frame = <<>> /\ ret = 0

\* InstSelectorArm32::run: the next instruction of the function is translated
TranslateInst ==
    /\ phase = "select"
    /\ \E s \in {translate([asm |-> asm, allocated |-> allocated,
                            regValues |-> regValues, realArgCount |-> 0],
                           call[apc + 1])} :
          /\ asm' = s.asm
          /\ allocated' = s.allocated
          /\ regValues' = s.regValues
    /\ apc' = apc + 1
    /\ phase' = IF apc + 1 = Len(call) THEN "selected" ELSE "select"
    /\ UNCHANGED <<root, result, module, call, regs, stack, frame, ret>>
    /\ UNCHANGED execVars

NextTranslate == TranslateInst

SpecTranslate == InitTranslate /\ [][NextTranslate]_vars

\* C27: when the translation of one IR instruction (move, unary, binary,
\* mod, cmp, cond_goto, func_call) returns, every register it allocated or
\* pinned -- the scratch registers of operands and result, the temporary of
\* mod, R0..R3 of a call -- has been freed: the allocator holds the same
\* registers before and after each instruction.
C27_RegistersFreed == [][TranslateInst => allocated' = allocated]_vars

\* a mod, which held four registers at once, and a call that pinned R0..R3
\* and passed two operands on the stack have been translated, and nothing is
\* held
C27_Witness ==
    /\ phase = "selected"
    /\ call[1].op = "mod" /\ call[1].args = <<SelX, SelY>>
    /\ call[2].op = "call" /\ Len(call[2].args) = 6 /\ call[2].hasResult
    /\ \E k \in 1..Len(asm) : asm[k].op = "mul" /\ asm[k].rd = 3
    /\ \E k \in 1..Len(asm) : asm[k].op = "str" /\ asm[k].base = ARM32_SP_REG_NO
                                /\ asm[k].rs = 4
    /\ allocated = {}

(***************************************************************************)
(* Branch targets.                                                         *)
(***************************************************************************)
InitLabel == Init /\ root \in LabelPrograms

SpecLabel == InitLabel /\ [][Next]_vars

\* how often the label l is in the instruction list code
Placed(code, l) == Cardinality({j \in 1..Len(code) : code[j] = l})

TargetsPlacedOnce(code) ==
    \A k \in 1..Len(code) : \A l \in TargetsOf(code[k]) : Placed(code, l) = 1

\* C28: in every successfully lowered function, each label a Goto or a
\* CondGoto of the function's instruction list branches to is in that list
\* exactly once: no branch to a label that was created but not emitted, no
\* label emitted twice.
C28_TargetsEmittedOnce ==
    (phase # "parsed" /\ root \in LabelPrograms /\ result = "true")
        => \A i \in 1..Len(module.funcs) : TargetsPlacedOnce(module.funcs[i].code)

(***************************************************************************)
(* Operators without a translation.                                        *)
(***************************************************************************)
\* the instructions of the lowered functions
Emitted ==
    UNION {{module.funcs[i].code[k] : k \in 1..Len(module.funcs[i].code)} :
              i \in 1..Len(module.funcs)}

\* C29: every operator the lowering emits (entry, exit, label, goto,
\* cond_goto, move, add, sub, mul, div, mod, neg, deref, the six comparisons,
\* call) has a handler registered in the ARM32 selector: translate() never
\* takes the "operator not supported" path for an instruction the lowering
\* produced.
C29_EveryOperatorHandled ==
    (phase # "parsed" /\ root \in AccessPrograms /\ result = "true")
        => \A id \in Emitted : module.heap[id].op \in translator_handlers

(***************************************************************************)
(* Initialized globals.                                                    *)
(***************************************************************************)
GlobalVariables == {g \in 1..Len(module.heap) : module.heap[g].vk = "global"}

\* C30: after any sequence of global declarations has been lowered, every
\* global that is initialized has an initial value that is not null, also
\* when the initializer is an identifier that is not declared or an
\* expression whose lowering yields no value.
C30_InitializedHasValue ==
    (phase # "parsed" /\ root \in GlobalPrograms)
        => \A g \in GlobalVariables :
              module.heap[g].isInitialized => module.heap[g].initValue # 0

====
